---- MODULE Spec2Model ----
(***************************************************************************)
(* A model of mediabackups: the metadata database (files, backups,         *)
(* file_history), the backup pipeline (backup-wiki), the discovery passes  *)
(* (add / check_and_update / update) and the deletion flow.                *)
(*                                                                         *)
(* Every call of MySQLMetadata.query_and_fetchall commits (commit=True)    *)
(* unless stated otherwise, so every SQL statement is one atomic step and  *)
(* other processes may run between two statements of one method.           *)
(* Row counts are those MySQL reports to pymysql without CLIENT_FOUND_ROWS:*)
(* an UPDATE counts the rows it changed, not the rows it matched.          *)
(***************************************************************************)
EXTENDS Integers, Sequences, FiniteSets, TLC

VARIABLES
    files,          \* table files: sequence of rows, the id is the index
    file_history,   \* table file_history: sequence of [file_id, row]
    backups,        \* table backups: set of rows, UNIQUE (wiki, sha256)
    store,          \* the backup bucket: set of keys that hold an object
    swift,          \* production: per files id, the File production now serves
    worker,         \* the backup-wiki processes
    disc,           \* the discovery processes running update()
    faults,         \* recoverable driver errors raised so far
    session,        \* the deletion session (delete-media-file)
    last            \* the last discovery call and what it returned

vars == <<files, file_history, backups, store, swift, worker, disc, faults, session, last>>

\* ------------------------------------------------------------------ bounds

\* number of backup-wiki processes
NumWorkers == 2
\* MySQLMetadata.batchsize as configured for the model
BatchSize == 2
\* recoverable driver errors (ProgrammingError / InternalError) in one run
MaxFaults == 1
\* renames / moves of a file in production in one run
MaxMoves == 1
\* number of concurrent discovery processes
NumDiscovery == 2

NULL == "NULL"

\* ------------------------------------------------------------- the domain

\* wikis table; get_non_public_wikis() returns those whose type is not public
NonPublicWikis == {"privwiki"}

\* storage_containers table (names known to the normalized table)
KnownContainers == {"wikipedia-pub-local-public", "wikipedia-priv-local-public"}

\* sha256sum / sha1sum of a content: hex digits (four stand for the 64 of
\* a sha256, whose digits the backup key and the shard are computed from)
sha256sum(content) ==
    CASE content = "cA" -> <<"9", "f", "8", "6">>
      [] content = "cB" -> <<"c", "0", "f", "e">>
      [] OTHER -> <<"0", "0", "0", "0">>

sha1sum(content) ==
    CASE content = "cA" -> "a1"
      [] content = "cB" -> "b2"
      [] OTHER -> "00"

\* File.__init__: the attributes of one revision (md5 is carried nowhere
\* but into the INSERT and is left out)
File(wiki, upload_name, status, size, type, upload_timestamp, sha1, container, path) ==
    [wiki |-> wiki, upload_name |-> upload_name, status |-> status,
     size |-> size, type |-> IF type = NULL THEN "ERROR" ELSE type,
     upload_timestamp |-> upload_timestamp,
     archived_timestamp |-> NULL, deleted_timestamp |-> NULL,
     sha1 |-> sha1, storage_container |-> container, storage_path |-> path]

\* ------------------------------------------------------------- sequences

Min(S) == CHOOSE x \in S : \A y \in S : x <= y

RECURSIVE SortedSeq(_)
SortedSeq(S) ==
    IF S = {} THEN <<>>
    ELSE LET m == Min(S) IN <<m>> \o SortedSeq(S \ {m})

Take(s, n) == SubSeq(s, 1, IF Len(s) < n THEN Len(s) ELSE n)

Range(s) == {s[i] : i \in DOMAIN s}

\* ------------------------------------------------------ production (Swift)

\* The content of each revision the model knows; revisions 1 and 2 are two
\* uploads of the same bytes under different titles.
ContentOf(id) == IF id = 3 THEN "cB" ELSE "cA"

\* MySQLMedia._process_row: the File production serves for revision id, under
\* its original title (moved = FALSE) or after a rename (moved = TRUE)
\* the upload timestamp production holds for a revision (a MediaWiki
\* timestamp string)
UploadTimestamp(id) ==
    CASE id = 1 -> "20210101000001"
      [] id = 2 -> "20210101000002"
      [] OTHER -> "20210101000003"

ProdFile(id, moved) ==
    LET wiki == IF id = 3 THEN "privwiki" ELSE "pubwiki"
        name == <<"title", id, moved>>
    IN File(wiki, name, "public", 10 + id, "BITMAP", UploadTimestamp(id),
            sha1sum(ContentOf(id)),
            IF wiki = "privwiki" THEN "wikipedia-priv-local-public"
                                 ELSE "wikipedia-pub-local-public",
            <<"path", id, moved>>)

NumRevisions == 3

\* ------------------------------------------------------- metadata: rows

\* MySQLMetadata.add: the row INSERTed for a File; the container is stored
\* through numeric_container.get(name, None), backup_status defaults to pending
NewRow(f) ==
    [wiki |-> f.wiki, upload_name |-> f.upload_name, status |-> f.status,
     size |-> f.size, type |-> f.type,
     upload_timestamp |-> f.upload_timestamp,
     archived_timestamp |-> f.archived_timestamp,
     deleted_timestamp |-> f.deleted_timestamp,
     sha1 |-> f.sha1,
     storage_container |-> IF f.storage_container \in KnownContainers
                           THEN f.storage_container ELSE NULL,
     storage_path |-> f.storage_path,
     backup_status |-> "pending"]

\* File.row2File: the File object read back from a row
row2File(row) ==
    [wiki |-> row.wiki, upload_name |-> row.upload_name, status |-> row.status,
     size |-> row.size, type |-> IF row.type = NULL THEN "ERROR" ELSE row.type,
     upload_timestamp |-> row.upload_timestamp,
     archived_timestamp |-> row.archived_timestamp,
     deleted_timestamp |-> row.deleted_timestamp,
     sha1 |-> row.sha1, storage_container |-> row.storage_container,
     storage_path |-> row.storage_path]

\* UPDATE files SET backup_status = st WHERE id IN ids
SetBackupStatus(fs, ids, st) ==
    [i \in DOMAIN fs |-> IF i \in ids THEN [fs[i] EXCEPT !.backup_status = st] ELSE fs[i]]

\* the row count of that UPDATE: the rows whose value changed
ChangedRows(fs, ids, st) ==
    Cardinality({i \in ids : i \in DOMAIN fs /\ fs[i].backup_status # st})

\* ------------------------------------------------- process_files (claim)

\* SELECT ... WHERE backup_status = pending ORDER BY id ASC LIMIT batchsize
SelectPending(fs) ==
    Take(SortedSeq({i \in DOMAIN fs : fs[i].backup_status = "pending"}), BatchSize)

\* files = {row['id']: File.row2File(row)}: the batch as the worker holds it
BatchOf(fs, ids) == [k \in DOMAIN ids |-> [id |-> ids[k], file |-> row2File(fs[ids[k]])]]

IdleWorker == [pc |-> "idle", batch |-> <<>>, idx |-> 0, status_list |-> <<>>, cur |-> NULL]

\* an exception nothing catches ends the process; cur names where it rose
Raised(where) == [IdleWorker EXCEPT !.pc = "raised", !.cur = where]

\* a process_files that yields whatever the UPDATE changed (C8's mutant)
ClaimCountsIgnored(result, selected) == TRUE

\* the comparison of process_files: rows updated against rows selected
ClaimCountsAgree(result, selected) == result = selected

\* One pass of the while loop on a healthy connection: SELECT ... FOR UPDATE
\* and the UPDATE run in one transaction, the rows stay locked in between.
ClaimBatch(w) ==
    /\ worker[w].pc = "idle"
    /\ LET ids == SelectPending(files) IN
       IF ids = <<>>
       THEN /\ worker' = [worker EXCEPT ![w] = [IdleWorker EXCEPT !.pc = "done"]]
            /\ UNCHANGED files
       ELSE /\ files' = SetBackupStatus(files, Range(ids), "processing")
            /\ worker' = [worker EXCEPT ![w] =
                 IF ClaimCountsAgree(ChangedRows(files, Range(ids), "processing"), Len(ids))
                 THEN [IdleWorker EXCEPT !.pc = "download", !.batch = BatchOf(files, ids), !.idx = 1]
                 ELSE Raised("process_files")]
    /\ UNCHANGED <<file_history, backups, store, swift, disc, faults, session, last>>

\* The UPDATE raises a recoverable error after the SELECT returned:
\* query_and_fetchall calls connect_db(), the transaction of the old
\* connection is gone and with it the row locks.
ClaimLosesConnection(w) ==
    /\ worker[w].pc = "idle"
    /\ faults < MaxFaults
    /\ SelectPending(files) # <<>>
    /\ faults' = faults + 1
    /\ worker' = [worker EXCEPT ![w] =
         [IdleWorker EXCEPT !.pc = "reclaim", !.batch = BatchOf(files, SelectPending(files))]]
    /\ UNCHANGED <<files, file_history, backups, store, swift, disc, session, last>>

\* The retry of the UPDATE on the new connection: WHERE id IN (...) only.
ClaimRetry(w) ==
    /\ worker[w].pc = "reclaim"
    /\ LET ids == {worker[w].batch[k].id : k \in DOMAIN worker[w].batch} IN
       /\ files' = SetBackupStatus(files, ids, "processing")
       /\ worker' = [worker EXCEPT ![w] =
            IF ClaimCountsAgree(ChangedRows(files, ids, "processing"), Len(worker[w].batch))
            THEN [@ EXCEPT !.pc = "download", !.idx = 1]
            ELSE Raised("process_files")]
    /\ UNCHANGED <<file_history, backups, store, swift, disc, faults, session, last>>

\* ------------------------------------------------------ S3 (backup store)

\* endpoints configured for the bucket
NumEndpoints == 4

HexValue(d) ==
    CASE d = "0" -> 0 [] d = "1" -> 1 [] d = "2" -> 2 [] d = "3" -> 3
      [] d = "4" -> 4 [] d = "5" -> 5 [] d = "6" -> 6 [] d = "7" -> 7
      [] d = "8" -> 8 [] d = "9" -> 9 [] d = "a" -> 10 [] d = "b" -> 11
      [] d = "c" -> 12 [] d = "d" -> 13 [] d = "e" -> 14 [] d = "f" -> 15

\* calculate_backup_storage_path: wiki / sha256[:3] / sha256 [.age]
calculate_backup_storage_path(wiki, sha256) ==
    <<wiki, SubSeq(sha256, 1, 3), sha256,
      IF wiki \in NonPublicWikis THEN ".age" ELSE "">>

\* a store that deals the keys round robin (C28's mutant)
FindShardModulo(upload_name) == (HexValue(upload_name[3][1]) % NumEndpoints) + 1

\* S3.find_shard: the 1-based location id of a key
find_shard(upload_name) == (HexValue(upload_name[3][1]) \div NumEndpoints) + 1

\* what a HEAD of the key can answer: 200 when the object is there, 404 when
\* it is not, and an error of the store (403, 500, ...) either way
HeadAnswers(st, upload_name) ==
    (IF upload_name \in st THEN {"200"} ELSE {"404"}) \cup {"500"}

\* an existence check that never finds the key (C23's mutant)
CheckFileExistsNever(answer) == FALSE

\* S3.check_file_exists: True without an exception, and on a ClientError
\* int(ex.response['Error']['Code']) != 404
check_file_exists(answer) == IF answer = "200" THEN TRUE ELSE answer # "404"

\* ------------------------------------------ backup_wiki: one file of a batch

\* SwiftMedia.download: the content found at the File's production address
SwiftObject(sw, f) ==
    LET at == {id \in DOMAIN sw :
                 /\ ProdFile(id, sw[id]).storage_container = f.storage_container
                 /\ ProdFile(id, sw[id]).storage_path = f.storage_path}
    IN IF at = {} THEN NULL ELSE ContentOf(CHOOSE id \in at : TRUE)

\* what the steps of download_and_backup met for one file, in the order they
\* ran; exists is what check_file_exists returned, existed what the bucket
\* held, returned what upload_file returned
NoObs == [steps |-> <<>>, download |-> "none", head |-> "none", exists |-> FALSE,
          existed |-> FALSE, encrypt |-> "none", upload |-> "none", returned |-> 0]

\* the dictionary main() appends to status_list in its finally block; obs
\* records what each step of download_and_backup met (not program state)
StatusEntry(id, f, sha1, sha256, status, location, obs) ==
    [id |-> id, wiki |-> f.wiki, sha1 |-> sha1, sha256 |-> sha256,
     status |-> status, location |-> location, obs |-> obs]

\* after the finally block: the next file of the batch, or update_status
Advance(wk, entry) ==
    LET sl == Append(wk.status_list, entry) IN
    IF wk.idx < Len(wk.batch)
    THEN [wk EXCEPT !.status_list = sl, !.idx = wk.idx + 1, !.pc = "download", !.cur = NULL]
    ELSE [wk EXCEPT !.status_list = sl, !.idx = 1, !.pc = "status", !.cur = NULL]

\* the status main() records for DownloadException
OnDownloadException == "error"
\* a main() that records an existing key as a failure (C10's mutant)
DuplicateAsError == "error"
\* the status main() records for DuplicateException
OnDuplicateException == "duplicate"
\* the status main() records for EncryptionException
OnEncryptionException == "error"
\* the status main() records for UploadException
OnUploadException == "error"

\* a handle_checksums that keeps the sha1 of the metadata (C37's mutant)
HandleChecksumsKeepsMetadata(f_sha1, sha1) == f_sha1

\* handle_checksums: f.sha1 after "if f.sha1 != sha1: ... f.sha1 = sha1"
handle_checksums(f_sha1, sha1) == IF f_sha1 # sha1 THEN sha1 ELSE f_sha1

\* download_file_from_production, handle_checksums,
\* calculate_backup_storage_path and check_file_exists of download_and_backup
DownloadAndCheck(w) ==
    /\ worker[w].pc = "download"
    /\ LET wk == worker[w]
           id == wk.batch[wk.idx].id
           f  == wk.batch[wk.idx].file
           content == SwiftObject(swift, f)
       IN
       \/ \* SwiftMedia.download reports an error: DownloadException
          /\ worker' = [worker EXCEPT ![w] =
               Advance(wk, StatusEntry(id, f, f.sha1, NULL, OnDownloadException, NULL,
                                       [NoObs EXCEPT !.steps = <<"download">>,
                                                     !.download = "failed"]))]
       \/ \* sha1sum / sha256sum cannot read the downloaded file: the OSError
          \* is caught nowhere and ends the process
          /\ content # NULL
          /\ worker' = [worker EXCEPT ![w] = Raised("hashing")]
       \/ /\ content # NULL
          /\ LET sha1 == handle_checksums(f.sha1, sha1sum(content))
                 sha256 == sha256sum(content)
                 backup_name == calculate_backup_storage_path(f.wiki, sha256)
             IN \E answer \in HeadAnswers(store, backup_name) :
                  LET obs == [NoObs EXCEPT !.steps = <<"download", "hash", "exists">>,
                                           !.download = "ok", !.head = answer,
                                           !.exists = check_file_exists(answer),
                                           !.existed = (backup_name \in store)]
                  IN worker' = [worker EXCEPT ![w] =
                       IF check_file_exists(answer)
                       THEN Advance(wk, StatusEntry(id, f, sha1, sha256,
                                                    OnDuplicateException, NULL, obs))
                       ELSE [wk EXCEPT !.pc = "upload",
                                       !.cur = [sha1 |-> sha1, sha256 |-> sha256,
                                                backup_name |-> backup_name, obs |-> obs]]]
    /\ UNCHANGED <<files, file_history, backups, store, swift, disc, faults, session, last>>

\* handle_encryption and upload_file of download_and_backup
EncryptAndUpload(w) ==
    /\ worker[w].pc = "upload"
    /\ LET wk == worker[w]
           id == wk.batch[wk.idx].id
           f  == wk.batch[wk.idx].file
           c  == wk.cur
           private == f.wiki \in NonPublicWikis
           enc_ok == IF private THEN "ok" ELSE "none"
           ran == IF private THEN <<"encrypt", "upload">> ELSE <<"upload">>
       IN
       \/ \* age exits non-zero: EncryptionException
          /\ private
          /\ worker' = [worker EXCEPT ![w] =
               Advance(wk, StatusEntry(id, f, c.sha1, c.sha256, OnEncryptionException, NULL,
                                       [c.obs EXCEPT !.steps = Append(@, "encrypt"),
                                                     !.encrypt = "failed"]))]
          /\ UNCHANGED store
       \/ \* S3.upload_file catches a ClientError and returns -1: UploadException
          /\ worker' = [worker EXCEPT ![w] =
               Advance(wk, StatusEntry(id, f, c.sha1, c.sha256, OnUploadException, NULL,
                                       [c.obs EXCEPT !.steps = @ \o ran, !.encrypt = enc_ok,
                                                     !.upload = "failed", !.returned = -1]))]
          /\ UNCHANGED store
       \/ \* the object is stored; download_and_backup returns 'backedup', location
          /\ store' = store \cup {c.backup_name}
          /\ worker' = [worker EXCEPT ![w] =
               Advance(wk, StatusEntry(id, f, c.sha1, c.sha256, "backedup",
                                       find_shard(c.backup_name),
                                       [c.obs EXCEPT !.steps = @ \o ran, !.encrypt = enc_ok,
                                                     !.upload = "ok",
                                                     !.returned = find_shard(c.backup_name)]))]
    /\ UNCHANGED <<files, file_history, backups, swift, disc, faults, session, last>>

\* ----------------------------------------------------------- update_status

\* after one entry of file_list: the next entry, or return 0 and the next
\* pass of process_files
NextEntry(wk) ==
    IF wk.idx < Len(wk.status_list)
    THEN [wk EXCEPT !.idx = wk.idx + 1, !.pc = "status"]
    ELSE IdleWorker

\* the id the backups table gives the next row it stores
NextBackupId(bk) ==
    IF bk = {} THEN 1 ELSE 1 + (CHOOSE n \in {b.id : b \in bk} : \A b \in bk : b.id <= n)

\* the row of INSERT into backups (location, wiki, sha256, sha1)
BackupsRow(bk, e) ==
    [id |-> NextBackupId(bk), wiki |-> e.wiki, sha256 |-> e.sha256, sha1 |-> e.sha1,
     location |-> e.location]

\* a backups table that stores every row it is given (C14's mutant)
InsertBackupNoKey(bk, e) == bk \cup {BackupsRow(bk, e)}

\* INSERT into backups (location, wiki, sha256, sha1); UNIQUE (wiki, sha256):
\* a second row for the pair is an IntegrityError and inserts nothing
InsertBackup(bk, e) ==
    IF \E b \in bk : b.wiki = e.wiki /\ b.sha256 = e.sha256
    THEN bk
    ELSE bk \cup {BackupsRow(bk, e)}

\* UPDATE files SET backup_status = %s WHERE id = %s, and the check of its
\* row count
UpdateStatusRow(w) ==
    /\ worker[w].pc = "status"
    /\ LET wk == worker[w]
           e  == wk.status_list[wk.idx]
       IN /\ files' = SetBackupStatus(files, {e.id}, e.status)
          /\ worker' = [worker EXCEPT ![w] =
               IF ChangedRows(files, {e.id}, e.status) # 1
               THEN Raised("update_status")
               ELSE IF e.status = "backedup"
                    THEN [wk EXCEPT !.pc = "insert"]
                    ELSE NextEntry(wk)]
    /\ UNCHANGED <<file_history, backups, store, swift, disc, faults, session, last>>

\* the INSERT into backups of a backedup entry
UpdateStatusInsert(w) ==
    /\ worker[w].pc = "insert"
    /\ backups' = InsertBackup(backups, worker[w].status_list[worker[w].idx])
    /\ worker' = [worker EXCEPT ![w] = NextEntry(worker[w])]
    /\ UNCHANGED <<files, file_history, store, swift, disc, faults, session, last>>

\* the INSERT raises a recoverable error twice: query_and_fetchall raises
\* MySQLQueryError, update_status returns -1 and main() goes on with the
\* next batch
UpdateStatusInsertFails(w) ==
    /\ worker[w].pc = "insert"
    /\ faults < MaxFaults
    /\ faults' = faults + 1
    /\ worker' = [worker EXCEPT ![w] = IdleWorker]
    /\ UNCHANGED <<files, file_history, backups, store, swift, disc, session, last>>

\* ------------------------------------------------------------------ update

\* check_and_update: the comparison that schedules an update of match m
\* with the incoming File f
Differs(m, f) ==
    \/ m.status # f.status
    \/ m.upload_name # f.upload_name
    \/ m.type # f.type
    \/ m.archived_timestamp # f.archived_timestamp
    \/ m.deleted_timestamp # f.deleted_timestamp
    \/ m.storage_container # f.storage_container
    \/ m.storage_path # f.storage_path

\* an update that re-arms on an address change alone (C7's mutant)
RearmOnAddressChange(old_storage_container, old_storage_path, old_backup_status, f) ==
    \/ old_storage_container # f.storage_container
    \/ old_storage_path # f.storage_path

\* an update that never sets backup_status (C26's mutant)
RearmNever(old_storage_container, old_storage_path, old_backup_status, f) == FALSE

\* update: the test that chooses the UPDATE which also sets backup_status
Rearm(old_storage_container, old_storage_path, old_backup_status, f) ==
    /\ \/ old_storage_container # f.storage_container
       \/ old_storage_path # f.storage_path
    /\ old_backup_status = "error"

\* update: the row after "UPDATE files SET upload_name, file_type, status,
\* deleted_timestamp, archived_timestamp, storage_container, storage_path
\* [, backup_status] WHERE id"
UpdatedRow(row, f, rearm) ==
    [row EXCEPT !.upload_name = f.upload_name,
                !.type = f.type,
                !.status = f.status,
                !.deleted_timestamp = f.deleted_timestamp,
                !.archived_timestamp = f.archived_timestamp,
                !.storage_container = IF f.storage_container \in KnownContainers
                                      THEN f.storage_container ELSE NULL,
                !.storage_path = f.storage_path,
                !.backup_status = IF rearm THEN "pending" ELSE @]

\* INSERT INTO file_history (file_id, fields) SELECT id, fields FROM files
\* WHERE id: the properties() columns, which do not include backup_status
HistoryRow(id, row) == [file_id |-> id, file |-> row2File(row)]

IdleDisc == [pc |-> "idle"]

\* update, first statement for one id: SELECT fields, backup_status FROM
\* files WHERE id. check_and_update scheduled the id because the stored row
\* differs from the File production serves now.
UpdateSelect(d, id) ==
    /\ disc[d].pc = "idle"
    /\ Differs(row2File(files[id]), ProdFile(id, swift[id]))
    /\ disc' = [disc EXCEPT ![d] =
         [pc |-> "history", id |-> id, f |-> ProdFile(id, swift[id]),
          old_storage_container |-> files[id].storage_container,
          old_storage_path |-> files[id].storage_path,
          old_backup_status |-> files[id].backup_status]]
    /\ UNCHANGED <<files, file_history, backups, store, swift, worker, faults, session, last>>

\* update, second statement: the copy of the live row to file_history
UpdateHistory(d) ==
    /\ disc[d].pc = "history"
    /\ file_history' = Append(file_history, HistoryRow(disc[d].id, files[disc[d].id]))
    /\ disc' = [disc EXCEPT ![d].pc = "write"]
    /\ UNCHANGED <<files, backups, store, swift, worker, faults, session, last>>

\* update, third statement: the UPDATE of the live row, with backup_status
\* when the values read by the first statement ask for it
UpdateWrite(d) ==
    /\ disc[d].pc = "write"
    /\ LET u == disc[d] IN
       files' = [files EXCEPT ![u.id] =
                   UpdatedRow(@, u.f, Rearm(u.old_storage_container, u.old_storage_path,
                                            u.old_backup_status, u.f))]
    /\ disc' = [disc EXCEPT ![d] = IdleDisc]
    /\ UNCHANGED <<file_history, backups, store, swift, worker, faults, session, last>>

\* production renames a file: its object leaves the old address
ProdMove(id) ==
    /\ ~swift[id]
    /\ Cardinality({i \in DOMAIN swift : swift[i]}) < MaxMoves
    /\ swift' = [swift EXCEPT ![id] = TRUE]
    /\ UNCHANGED <<files, file_history, backups, store, worker, disc, faults, session, last>>

\* ------------------------------------------------ the pipeline on its own

Workers == 1..NumWorkers

\* the metadata database as discovery left it: every revision inserted once
InitFiles == [id \in 1..NumRevisions |-> NewRow(ProdFile(id, FALSE))]

NoSession == [pc |-> "none"]
NoCall == [op |-> "none"]

InitPipeline ==
    /\ files = InitFiles
    /\ file_history = <<>>
    /\ backups = {}
    /\ store = {}
    /\ swift = [id \in 1..NumRevisions |-> FALSE]
    /\ worker = [w \in Workers |-> IdleWorker]
    /\ disc = <<>>
    /\ faults = 0
    /\ session = NoSession
    /\ last = NoCall

Pipeline ==
    \E w \in Workers :
        \/ ClaimBatch(w)
        \/ ClaimLosesConnection(w)
        \/ ClaimRetry(w)
        \/ DownloadAndCheck(w)
        \/ EncryptAndUpload(w)
        \/ UpdateStatusRow(w)
        \/ UpdateStatusInsert(w)
        \/ UpdateStatusInsertFails(w)

SpecPipeline == InitPipeline /\ [][Pipeline]_vars

\* ----------------------- pipeline workers and discovery on one database

Discoverers == 1..NumDiscovery

\* revisions in the database when workers and discovery run together
NumTracked == 2

Init ==
    /\ files = SubSeq(InitFiles, 1, NumTracked)
    /\ file_history = <<>>
    /\ backups = {}
    /\ store = {}
    /\ swift = [id \in 1..NumTracked |-> FALSE]
    /\ worker = [w \in Workers |-> IdleWorker]
    /\ disc = [d \in Discoverers |-> IdleDisc]
    /\ faults = 0
    /\ session = NoSession
    /\ last = NoCall

Discovery ==
    \E d \in Discoverers :
        \/ \E id \in DOMAIN files : UpdateSelect(d, id)
        \/ UpdateHistory(d)
        \/ UpdateWrite(d)

Production == \E id \in DOMAIN swift : ProdMove(id)

Next == Pipeline \/ Discovery \/ Production

Spec == Init /\ [][Next]_vars

\* ---------------------------------------------------------------- deletion

\* None, as the production_url of a file that has no public address
NoUrl == <<>>

\* MySQLMetadata._swift2url: None for a deleted file, the public address
\* otherwise (every container of the model has its two tokens)
swift2url(status, container, path) ==
    IF status = "deleted" THEN NoUrl ELSE <<"https://upload.wikimedia.org/", container, path>>

\* a _query_backups that reports every path without the suffix (C24's
\* mutant)
BackupPathNoSuffix(wiki, sha256) == <<wiki, SubSeq(sha256, 1, 3), sha256, "">>

\* MySQLMetadata._query_backups: backup_path = os.path.join(wiki, sha256[:3],
\* sha256), with ".age" added when the wiki is in get_non_public_wikis()
backup_path(wiki, sha256) ==
    LET joined == <<wiki, SubSeq(sha256, 1, 3), sha256>> IN
    IF wiki \in NonPublicWikis THEN Append(joined, ".age") ELSE Append(joined, "")

\* MySQLMetadata._query_backups: one dictionary per row of backups JOIN files
\* ON (wiki, sha1); backup_location is the location's endpoint
QueryRow(fs, id, b) ==
    [file_id |-> id, wiki |-> fs[id].wiki, sha256 |-> b.sha256,
     production_url |-> swift2url(fs[id].status, fs[id].storage_container, fs[id].storage_path),
     production_path |-> fs[id].storage_path,
     backup_location |-> b.location,
     backup_path |-> backup_path(fs[id].wiki, b.sha256)]

\* ... WHERE <search> AND backup_status_name IN ('backedup', 'duplicate'),
\* the search standing for the ids it matches
query_backups(fs, bk, matched) ==
    LET BackupOf(id) == CHOOSE b \in bk : b.wiki = fs[id].wiki /\ b.sha1 = fs[id].sha1
        hits == SortedSeq({id \in matched :
                    /\ fs[id].backup_status \in {"backedup", "duplicate"}
                    /\ \E b \in bk : b.wiki = fs[id].wiki /\ b.sha1 = fs[id].sha1})
    IN [k \in DOMAIN hits |-> QueryRow(fs, hits[k], BackupOf(hits[k]))]

\* the classes whose delete_files a deletion session runs
Implementations == {"MetadataQuery", "InteractiveQuery"}

\* what the HEAD request to production comes to: a status code, or no answer
ProbeAnswers == {"404", "200", "timeout"}

\* check_deleted_from_production when production does not answer:
\* MetadataQuery passes timeout=30 and exits with 7 on requests' Timeout;
\* InteractiveQuery passes no timeout and catches nothing: the call blocks,
\* or the connection error the system raises ends the process (status 1)
OnProbeTimeout(impl) ==
    IF impl = "MetadataQuery"
    THEN {[pc |-> "exit", code |-> 7]}
    ELSE {[pc |-> "blocked", code |-> 0], [pc |-> "exit", code |-> 1]}

\* check_deleted_from_production on an answer with a status code
OnProbeStatus(answer) == IF answer # "404" THEN 6 ELSE 0

\* S3.delete_file: client.delete_object(self.bucket, name) removes the
\* object, raises ClientError (returns -1), or raises the TypeError of a
\* client that takes keyword arguments only (caught nowhere)
DeleteOutcomes == {"removed", "ClientError", "TypeError"}

SameBackup(f, g) == f.wiki = g.wiki /\ f.sha256 = g.sha256

\* a mark_as_deleted that runs the DELETE in dry mode too (C4's mutant)
DeleteFromBackupsAlways(bk, f, dry_mode) == {b \in bk : ~SameBackup(b, f)}

\* mark_as_deleted: DELETE FROM backups WHERE wiki = %s AND sha256 = %s, in
\* dry mode SELECT 1 FROM backups WHERE ...
DeleteFromBackups(bk, f, dry_mode) ==
    IF dry_mode THEN bk ELSE {b \in bk : ~SameBackup(b, f)}

\* a mark_as_deleted that takes every DELETE for a success (C18's mutant)
BackupsRowCountIgnored(bk, f) == 1

\* the rows the SELECT returns, or the row count of the DELETE
BackupsRowCount(bk, f) == Cardinality({b \in bk : SameBackup(b, f)})

\* mark_as_deleted: UPDATE files SET status = hard-deleted WHERE id = %s, in
\* dry mode SELECT 1 FROM files WHERE id = %s
SetHardDeleted(fs, f, dry_mode) ==
    IF dry_mode THEN fs ELSE [fs EXCEPT ![f.file_id].status = "hard-deleted"]

\* the rows the SELECT returns, or the rows the UPDATE changed
FilesRowCount(fs, f, dry_mode) ==
    IF dry_mode \/ fs[f.file_id].status # "hard-deleted" THEN 1 ELSE 0

Exit(code) == [session EXCEPT !.pc = "exit", !.code = code]

\* delete_media_file.main / MetadataQuery.handle_query up to the call of
\* delete_files: the search, exit 4 on an empty list, the confirmation
\* (exit 3 on "n")
StartSession ==
    /\ session.pc = "none"
    /\ \E impl \in Implementations, dry_mode \in BOOLEAN, confirm \in BOOLEAN,
          matched \in SUBSET (DOMAIN files) :
         LET file_list == query_backups(files, backups, matched)
             s == [pc |-> "probe", impl |-> impl, dry_mode |-> dry_mode,
                   files |-> file_list, idx |-> 1, deleted_files |-> <<>>,
                   code |-> 0, errors |-> 0,
                   met |-> [k \in DOMAIN file_list |-> "none"],
                   delete_calls |-> 0,
                   before |-> [files |-> files, backups |-> backups, store |-> store]]
         IN session' = IF Len(file_list) = 0 THEN [s EXCEPT !.pc = "exit", !.code = 4]
                       ELSE IF ~confirm THEN [s EXCEPT !.pc = "exit", !.code = 3]
                       ELSE s
    /\ UNCHANGED <<files, file_history, backups, store, swift, worker, disc, faults, last>>

\* after the last file of a loop: the next phase
NextPhase(s, n, phase) ==
    IF s.idx < n THEN [s EXCEPT !.idx = s.idx + 1] ELSE [s EXCEPT !.idx = 1, !.pc = phase]

\* check_deleted_from_production: one pass of its loop
Probe ==
    /\ session.pc = "probe"
    /\ LET f == session.files[session.idx]
           n == Len(session.files)
       IN IF f.production_url = NoUrl
          THEN session' = NextPhase(session, n, "delete")
          ELSE \E answer \in ProbeAnswers :
                 LET s == [session EXCEPT !.met[session.idx] = answer] IN
                 IF answer = "timeout"
                 THEN \E o \in OnProbeTimeout(session.impl) :
                        session' = [s EXCEPT !.pc = o.pc, !.code = o.code]
                 ELSE IF OnProbeStatus(answer) # 0
                      THEN session' = [s EXCEPT !.pc = "exit", !.code = OnProbeStatus(answer)]
                      ELSE session' = NextPhase(s, n, "delete")
    /\ UNCHANGED <<files, file_history, backups, store, swift, worker, disc, faults, last>>

\* delete_files: one pass of the loop over the files
DeleteFile ==
    /\ session.pc = "delete"
    /\ LET f == session.files[session.idx]
           n == Len(session.files)
           already == \E k \in DOMAIN session.deleted_files :
                          SameBackup(session.deleted_files[k], f)
           kept == [session EXCEPT !.deleted_files = Append(@, f)]
       IN \E answer \in HeadAnswers(store, f.backup_path) :
            IF ~check_file_exists(answer) /\ ~already
            THEN /\ session' = NextPhase(session, n, "mark")
                 /\ store' = store
            ELSE IF session.dry_mode
            THEN /\ session' = NextPhase(kept, n, "mark")
                 /\ store' = store
            ELSE \E outcome \in DeleteOutcomes :
                   LET called == [session EXCEPT !.delete_calls = @ + 1] IN
                   CASE outcome = "removed" ->
                          /\ store' = store \ {f.backup_path}
                          /\ session' = NextPhase([called EXCEPT !.deleted_files = Append(@, f)],
                                                  n, "mark")
                     [] outcome = "ClientError" ->
                          /\ store' = store
                          /\ session' = NextPhase(called, n, "mark")
                     [] OTHER ->
                          /\ store' = store
                          /\ session' = [called EXCEPT !.pc = "exit", !.code = 1]
    /\ UNCHANGED <<files, file_history, backups, swift, worker, disc, faults, last>>

\* mark_as_deleted: one pass of the loop over the files delete_files
\* returned; with none left the session cleans up and ends
MarkFile ==
    /\ session.pc = "mark"
    /\ IF session.idx > Len(session.deleted_files)
       THEN /\ session' = Exit(0)
            /\ UNCHANGED <<files, backups>>
       ELSE LET f == session.deleted_files[session.idx]
                dry_mode == session.dry_mode
                e1 == IF BackupsRowCount(backups, f) # 1 THEN 1 ELSE 0
                e2 == IF FilesRowCount(files, f, dry_mode) # 1 THEN 1 ELSE 0
            IN /\ backups' = DeleteFromBackups(backups, f, dry_mode)
               /\ files' = SetHardDeleted(files, f, dry_mode)
               /\ session' = [session EXCEPT !.idx = @ + 1, !.errors = @ + e1 + e2]
    /\ UNCHANGED <<file_history, store, swift, worker, disc, faults, last>>

\* The metadata and the store after the pipeline has backed up revisions 1
\* and 3 and found revision 2 to be a duplicate of 1. Each file is public or
\* deleted in production; the first object may be gone from the store (an
\* earlier session removed it and did not get to mark_as_deleted).
BackedUp(id, status) ==
    [NewRow(ProdFile(id, FALSE)) EXCEPT
        !.status = status,
        !.backup_status = IF id = 2 THEN "duplicate" ELSE "backedup"]

BackupRow(id) ==
    LET f == ProdFile(id, FALSE)
        sha256 == sha256sum(ContentOf(id))
    IN [id |-> IF id = 1 THEN 1 ELSE 2,
        wiki |-> f.wiki, sha256 |-> sha256, sha1 |-> f.sha1,
        location |-> find_shard(calculate_backup_storage_path(f.wiki, sha256))]

BackupKey(id) == calculate_backup_storage_path(ProdFile(id, FALSE).wiki, sha256sum(ContentOf(id)))

InitDeletion ==
    /\ \E st \in [1..NumRevisions -> {"public", "deleted"}] :
         files = [id \in 1..NumRevisions |-> BackedUp(id, st[id])]
    /\ file_history = <<>>
    /\ backups = {BackupRow(1), BackupRow(3)}
    /\ store \in {{BackupKey(1), BackupKey(3)}, {BackupKey(3)}}
    /\ swift = [id \in 1..NumRevisions |-> FALSE]
    /\ worker = <<>>
    /\ disc = <<>>
    /\ faults = 0
    /\ session = NoSession
    /\ last = NoCall

Deletion == StartSession \/ Probe \/ DeleteFile \/ MarkFile

SpecDeletion == InitDeletion /\ [][Deletion]_vars

\* --------------------------------------------------------------- discovery

\* calls of add / check_and_update in one run
MaxCalls == 2
\* files in one batch handed to add / check_and_update
MaxBatch == 2

\* a Swift container that is not in the storage_containers table
UnknownContainer == "wikipedia-pub-local-public.a3"

\* The Files production can hand to discovery for pubwiki: revisions 1 and 2,
\* revision 1 after a rename, revision 2 in a container the normalized table
\* does not know, a revision without sha1 and one without upload timestamp.
Catalog ==
    { ProdFile(1, FALSE), ProdFile(1, TRUE), ProdFile(2, FALSE),
      [ProdFile(2, FALSE) EXCEPT !.storage_container = UnknownContainer],
      [ProdFile(2, FALSE) EXCEPT !.sha1 = NULL],
      [ProdFile(1, FALSE) EXCEPT !.upload_timestamp = NULL] }

Batches == UNION {[1..n -> Catalog] : n \in 1..MaxBatch}

\* check_and_update: the rows of "SELECT ... WHERE wiki = %s AND sha1 is not
\* NULL AND sha1 IN (...)" that carry the sha1 of f (matches[f.sha1])
MatchesOfSha1(fs, wiki, f) ==
    {id \in DOMAIN fs : fs[id].wiki = wiki /\ fs[id].sha1 # NULL /\ fs[id].sha1 = f.sha1}

\* a check_and_update that takes every row of the sha1 for a match (C20's
\* mutant)
MatchesFoundBySha1(fs, wiki, f) == MatchesOfSha1(fs, wiki, f)

\* check_and_update: matches_found for f
MatchesFound(fs, wiki, f) ==
    {id \in MatchesOfSha1(fs, wiki, f) :
        /\ fs[id].size = f.size
        /\ f.upload_timestamp # NULL
        /\ fs[id].upload_timestamp = f.upload_timestamp}

\* check_and_update: what the loop decides for one incoming file
Verdict(fs, wiki, f) ==
    LET found == MatchesFound(fs, wiki, f) IN
    IF f.sha1 = NULL THEN "skip"
    ELSE IF MatchesOfSha1(fs, wiki, f) = {} THEN "add"
    ELSE IF found = {} THEN "add"
    ELSE IF Cardinality(found) > 1 THEN "ambiguous"
    ELSE IF Differs(row2File(fs[CHOOSE id \in found : TRUE]), f) THEN "update"
    ELSE "unchanged"

MatchId(fs, wiki, f) == CHOOSE id \in MatchesFound(fs, wiki, f) : TRUE

\* check_and_update: files_to_add, in the order of the batch
FilesToAdd(fs, wiki, batch) == SelectSeq(batch, LAMBDA f : Verdict(fs, wiki, f) = "add")

\* check_and_update: the keys of files_to_update after the first k files of
\* the batch, in the order the dictionary received them
RECURSIVE ScheduledIds(_, _, _, _)
ScheduledIds(fs, wiki, batch, k) ==
    IF k = 0 THEN <<>>
    ELSE LET prev == ScheduledIds(fs, wiki, batch, k - 1)
             f == batch[k]
         IN IF Verdict(fs, wiki, f) = "update" /\ MatchId(fs, wiki, f) \notin Range(prev)
            THEN Append(prev, MatchId(fs, wiki, f))
            ELSE prev

\* check_and_update: files_to_update as a sequence of (id, File), the File
\* being the last one of the batch scheduled for the id
FilesToUpdate(fs, wiki, batch) ==
    LET ids == ScheduledIds(fs, wiki, batch, Len(batch))
        LastFor(id) == CHOOSE k \in DOMAIN batch :
                          /\ Verdict(fs, wiki, batch[k]) = "update"
                          /\ MatchId(fs, wiki, batch[k]) = id
                          /\ \A j \in DOMAIN batch :
                               (Verdict(fs, wiki, batch[j]) = "update"
                                /\ MatchId(fs, wiki, batch[j]) = id) => j <= k
    IN [k \in DOMAIN ids |-> [id |-> ids[k], file |-> batch[LastFor(ids[k])], old |-> fs[ids[k]]]]

\* an update that goes on to the UPDATE whatever the history copy did
\* (C22's mutant)
CopiedAlways(result) == TRUE

\* update: the history copy inserted one row ("if result != 1: continue")
Copied(result) == result = 1

\* update: the loop over files_to_update from position k on; db holds the
\* tables and the count of successes, copied[k] is the row count the driver
\* reports for the k-th INSERT INTO file_history
RECURSIVE update(_, _, _, _)
update(db, todo, k, copied) ==
    IF k > Len(todo) THEN db
    ELSE LET id == todo[k].id
             f == todo[k].file
         IN IF id \notin DOMAIN db.files
            THEN \* SELECT ... WHERE id finds no row: continue
                 update(db, todo, k + 1, copied)
            ELSE LET row == db.files[id]
                     new == UpdatedRow(row, f, Rearm(row.storage_container, row.storage_path,
                                                     row.backup_status, f))
                     history == IF copied[k] >= 1
                                THEN Append(db.file_history, HistoryRow(id, row))
                                ELSE db.file_history
                 IN IF ~Copied(copied[k])
                    THEN update([db EXCEPT !.file_history = history], todo, k + 1, copied)
                    ELSE update([files |-> [db.files EXCEPT ![id] = new],
                                 file_history |-> history,
                                 success |-> db.success + (IF new # row THEN 1 ELSE 0)],
                                todo, k + 1, copied)

\* add: INSERT INTO files (...) VALUES (...), (...): one row per File
add(fs, batch) == fs \o [k \in DOMAIN batch |-> NewRow(batch[k])]

\* gather-mysql-metadata: metadata.add(batch)
Add ==
    /\ last.calls < MaxCalls
    /\ \E batch \in Batches :
         /\ files' = add(files, batch)
         /\ last' = [op |-> "add", batch |-> batch, returned |-> Len(batch),
                     calls |-> last.calls + 1, scheduled |-> <<>>]
    /\ UNCHANGED <<file_history, backups, store, swift, worker, disc, faults, session>>

\* update-mysql-metadata / add-recent-uploads:
\* metadata.check_and_update(wiki, batch), returning update(...) + add(...)
CheckAndUpdate ==
    /\ last.calls < MaxCalls
    /\ \E batch \in Batches :
         LET wiki == "pubwiki"
             todo == FilesToUpdate(files, wiki, batch)
             new  == FilesToAdd(files, wiki, batch)
             db   == update([files |-> files, file_history |-> file_history, success |-> 0],
                            todo, 1, [k \in DOMAIN todo |-> 1])
         IN /\ files' = add(db.files, new)
            /\ file_history' = db.file_history
            /\ last' = [op |-> "check_and_update", batch |-> batch,
                        returned |-> db.success + Len(new),
                        calls |-> last.calls + 1, scheduled |-> todo]
    /\ UNCHANGED <<backups, store, swift, worker, disc, faults, session>>

BackupStatuses == {"pending", "processing", "backedup", "duplicate", "error"}

\* The files table before a discovery pass: empty, or holding revisions 1
\* and 2 once each, in whatever backup_status the pipeline left them.
InitDiscovery ==
    /\ \/ files = <<>>
       \/ \E st \in [1..2 -> BackupStatuses] :
            files = [id \in 1..2 |-> [NewRow(ProdFile(id, FALSE)) EXCEPT !.backup_status = st[id]]]
    /\ file_history = <<>>
    /\ backups = {}
    /\ store = {}
    /\ swift = <<>>
    /\ worker = <<>>
    /\ disc = <<>>
    /\ faults = 0
    /\ session = NoSession
    /\ last = [op |-> "none", batch |-> <<>>, returned |-> 0, calls |-> 0, scheduled |-> <<>>]

DiscoveryCalls == Add \/ CheckAndUpdate

SpecDiscovery == InitDiscovery /\ [][DiscoveryCalls]_vars

\* ------------------------------------------- update_status, call by call

\* calls of update_status in one run
MaxStatusCalls == 2

\* the terminal states main() hands to update_status
TerminalStatuses == {"backedup", "duplicate", "error"}

\* download_and_backup / main: the dictionary of status_list for the row id
\* with the given outcome (sha256 and location are those of its content)
ResultEntry(fs, id, status) ==
    LET f == row2File(fs[id])
        sha256 == sha256sum(ContentOf(id))
    IN StatusEntry(id, f, f.sha1, sha256, status,
                   IF status = "backedup"
                   THEN find_shard(calculate_backup_storage_path(f.wiki, sha256))
                   ELSE 0,
                   NoObs)

\* update_status from entry k on. db holds the two tables as the statements
\* committed so far left them; fault_at is the entry whose INSERT raises
\* MySQLQueryError (0: none). The result says how the call ended: raised
\* (rowcount other than 1), returned -1 (INSERT failed) or returned 0.
RECURSIVE update_status(_, _, _, _)
update_status(db, file_list, k, fault_at) ==
    IF k > Len(file_list)
    THEN [files |-> db.files, backups |-> db.backups, returned |-> 0, raised |-> FALSE,
          reached |-> Len(file_list)]
    ELSE LET e == file_list[k]
             fs == SetBackupStatus(db.files, {e.id}, e.status)
         IN IF ChangedRows(db.files, {e.id}, e.status) # 1
            THEN [files |-> fs, backups |-> db.backups, returned |-> 0, raised |-> TRUE,
                  reached |-> k]
            ELSE IF e.status = "backedup" /\ fault_at = k
            THEN [files |-> fs, backups |-> db.backups, returned |-> -1, raised |-> FALSE,
                  reached |-> k]
            ELSE update_status([files |-> fs,
                                backups |-> IF e.status = "backedup"
                                            THEN InsertBackup(db.backups, e)
                                            ELSE db.backups],
                               file_list, k + 1, fault_at)

\* the id lists of a batch: one or two distinct rows, in ascending id order
\* or not (a dictionary keeps the order of the SELECT; two workers may hold
\* the same row)
IdLists ==
    {<<i>> : i \in 1..NumRevisions}
      \cup {p \in (1..NumRevisions) \X (1..NumRevisions) : p[1] # p[2]}

\* metadata.update_status(status_list) as one step
UpdateStatusCall ==
    /\ last.calls < MaxStatusCalls
    /\ \E ids \in IdLists :
         \E sts \in [DOMAIN ids -> TerminalStatuses], fault_at \in 0..Len(ids) :
           LET file_list == [k \in DOMAIN ids |-> ResultEntry(files, ids[k], sts[k])]
               r == update_status([files |-> files, backups |-> backups], file_list, 1, fault_at)
           IN /\ fault_at # 0 => sts[fault_at] = "backedup"
              /\ files' = r.files
              /\ backups' = r.backups
              /\ last' = [op |-> "update_status", file_list |-> file_list,
                          fault_at |-> fault_at, returned |-> r.returned,
                          raised |-> r.raised, reached |-> r.reached,
                          calls |-> last.calls + 1]
    /\ UNCHANGED <<file_history, store, swift, worker, disc, faults, session>>

\* every row claimed (processing), no backups row yet
InitUpdateStatus ==
    /\ files = SetBackupStatus(InitFiles, 1..NumRevisions, "processing")
    /\ file_history = <<>>
    /\ backups = {}
    /\ store = {}
    /\ swift = [id \in 1..NumRevisions |-> FALSE]
    /\ worker = <<>>
    /\ disc = <<>>
    /\ faults = 0
    /\ session = NoSession
    /\ last = [op |-> "none", file_list |-> <<>>, fault_at |-> 0, returned |-> 0,
               raised |-> FALSE, reached |-> 0, calls |-> 0]

SpecUpdateStatus == InitUpdateStatus /\ [][UpdateStatusCall]_vars

\* ------------------------------------------------- a killed worker, a reset

\* backup-wiki processes killed in one run
MaxKills == 1

\* the rows a running worker holds in its batch
HeldBy(w) ==
    IF worker[w].pc \in {"download", "upload", "status", "insert", "reclaim"}
    THEN {worker[w].batch[k].id : k \in DOMAIN worker[w].batch}
    ELSE {}

\* the process is killed during the per-file steps or right before it calls
\* update_status: what it held in memory is gone, its rows stay processing
WorkerKilled(w) ==
    /\ \/ worker[w].pc \in {"download", "upload"}
       \/ worker[w].pc = "status" /\ worker[w].idx = 1
    /\ Cardinality({v \in DOMAIN worker : worker[v].pc = "killed"}) < MaxKills
    /\ worker' = [worker EXCEPT ![w] = [IdleWorker EXCEPT !.pc = "killed"]]
    /\ UNCHANGED <<files, file_history, backups, store, swift, disc, faults, session, last>>

\* the operator's reset: UPDATE files SET backup_status = pending for the
\* rows left in processing that no running worker holds
OperatorReset ==
    LET stuck == {id \in DOMAIN files :
                    /\ files[id].backup_status = "processing"
                    /\ \A w \in DOMAIN worker : id \notin HeldBy(w)}
    IN /\ stuck # {}
       /\ files' = SetBackupStatus(files, stuck, "pending")
       /\ worker' = [w \in DOMAIN worker |->
                       IF worker[w].pc = "done" THEN IdleWorker ELSE worker[w]]
       /\ UNCHANGED <<file_history, backups, store, swift, disc, faults, session, last>>

\* the pipeline on a healthy database connection, with kills and resets
Recovery ==
    \/ \E w \in Workers :
         \/ ClaimBatch(w)
         \/ DownloadAndCheck(w)
         \/ EncryptAndUpload(w)
         \/ UpdateStatusRow(w)
         \/ UpdateStatusInsert(w)
         \/ WorkerKilled(w)
    \/ OperatorReset

SpecRecovery == InitPipeline /\ [][Recovery]_vars

\* ------------------------------------------------- the query wrappers
\* MySQLMetadata.query_and_fetchall and MySQLMedia.query, one statement at
\* a time: execute, and on ProgrammingError or InternalError connect_db
\* and execute once more.

MaxQueries == 2
MaxRowCount == 2

Wrappers == {"query_and_fetchall", "query"}

\* what cursor.execute can do: return a row count or raise a driver error
ExecuteErrors == {"ProgrammingError", "InternalError", "OperationalError"}

\* a wrapper that retries on ProgrammingError only (C19's mutant)
RecoverableProgrammingOnly == {"ProgrammingError"}

\* the errors of the except clause around the first execute
Recoverable == {"ProgrammingError", "InternalError"}

\* no statement in progress
NoQuery ==
    [op |-> "query", pc |-> "idle", wrapper |-> "none", commit |-> FALSE,
     db |-> "open", executions |-> 0, connects |-> 0, commits |-> 0,
     out1 |-> "none", out2 |-> "none", res2 |-> 0,
     result |-> 0, exception |-> "none", calls |-> 0]

\* a caller hands a statement to one of the wrappers; only
\* query_and_fetchall has the commit flag, True unless process_files
\* passes False
QueryCall ==
    /\ last.pc \in {"idle", "returned", "raised"}
    /\ last.calls < MaxQueries
    /\ \E wr \in Wrappers, commit \in BOOLEAN :
         /\ (wr = "query" => ~commit)
         /\ last' = [NoQuery EXCEPT !.pc = "execute", !.wrapper = wr,
                                    !.commit = commit, !.calls = last.calls + 1]
    /\ UNCHANGED <<files, file_history, backups, store, swift, worker, disc, faults, session>>

\* the first cursor.execute
Execute ==
    /\ last.pc = "execute"
    /\ \/ \E n \in 0..MaxRowCount :
            last' = [last EXCEPT !.pc = "fetch", !.executions = @ + 1,
                                 !.out1 = "ok", !.result = n]
       \/ \E err \in ExecuteErrors :
            IF err \in Recoverable
            THEN last' = [last EXCEPT !.pc = "reconnect", !.executions = @ + 1,
                                      !.out1 = err]
            ELSE last' = [last EXCEPT !.pc = "raised", !.executions = @ + 1,
                                      !.out1 = err, !.exception = err]
    /\ UNCHANGED <<files, file_history, backups, store, swift, worker, disc, faults, session>>

\* self.connect_db() of the except clause; MySQLMetadata.connect_db sets
\* self.db to None when it fails, MySQLMedia.connect_db keeps the handle
Reconnect ==
    /\ last.pc = "reconnect"
    /\ \/ last' = [last EXCEPT !.pc = "retry", !.connects = @ + 1, !.db = "reopened"]
       \/ last' = [last EXCEPT !.pc = "raised", !.connects = @ + 1,
                               !.db = IF last.wrapper = "query_and_fetchall"
                                      THEN "None" ELSE @,
                               !.exception = "MySQLConnectionError"]
    /\ UNCHANGED <<files, file_history, backups, store, swift, worker, disc, faults, session>>

\* the second cursor.execute, on the new connection
Retry ==
    /\ last.pc = "retry"
    /\ \/ \E n \in 0..MaxRowCount :
            last' = [last EXCEPT !.pc = "fetch", !.executions = @ + 1,
                                 !.out2 = "ok", !.res2 = n, !.result = n]
       \/ \E err \in ExecuteErrors :
            last' = [last EXCEPT !.pc = "raised", !.executions = @ + 1,
                                 !.out2 = err,
                                 !.exception = IF err \in Recoverable
                                               THEN "MySQLQueryError" ELSE err]
    /\ UNCHANGED <<files, file_history, backups, store, swift, worker, disc, faults, session>>

\* fetchall, the commit of query_and_fetchall, and the return
Return ==
    /\ last.pc = "fetch"
    /\ last' = [last EXCEPT !.pc = "returned",
                            !.commits = IF last.commit THEN @ + 1 ELSE @]
    /\ UNCHANGED <<files, file_history, backups, store, swift, worker, disc, faults, session>>

InitQuery ==
    /\ files = InitFiles
    /\ file_history = <<>>
    /\ backups = {}
    /\ store = {}
    /\ swift = [id \in 1..NumRevisions |-> FALSE]
    /\ worker = <<>>
    /\ disc = <<>>
    /\ faults = 0
    /\ session = NoSession
    /\ last = NoQuery

Query == QueryCall \/ Execute \/ Reconnect \/ Retry \/ Return

SpecQuery == InitQuery /\ [][Query]_vars

\* -------------------------------------------------- update, call by call
\* MySQLMetadata.update with the dictionary and the answers of the driver to
\* the history copies as inputs.

MaxUpdateCalls == 2

\* the Files a caller can hold for an id: the revision as stored, renamed,
\* or in a container the normalized table does not know; id 3 is not in the
\* table
IncomingFor(id) ==
    IF id = 1 THEN {ProdFile(1, FALSE), ProdFile(1, TRUE)}
    ELSE IF id = 2 THEN {ProdFile(2, FALSE),
                         [ProdFile(2, FALSE) EXCEPT !.storage_container = UnknownContainer]}
    ELSE {ProdFile(3, FALSE)}

\* the keys of the dictionary, in insertion order
UpdateIdLists ==
    {<<i>> : i \in 1..3} \cup {p \in (1..3) \X (1..3) : p[1] # p[2]}

NoRow == [backup_status |-> "none"]

UpdateCall ==
    /\ last.calls < MaxUpdateCalls
    /\ \E ids \in UpdateIdLists :
         \E fs \in [DOMAIN ids -> UNION {IncomingFor(i) : i \in 1..3}],
            copied \in [DOMAIN ids -> 0..1] :
           /\ \A k \in DOMAIN ids : fs[k] \in IncomingFor(ids[k])
           /\ LET todo == [k \in DOMAIN ids |->
                             [id |-> ids[k], file |-> fs[k],
                              old |-> IF ids[k] \in DOMAIN files THEN files[ids[k]] ELSE NoRow]]
                  db == update([files |-> files, file_history |-> file_history,
                                success |-> 0], todo, 1, copied)
              IN /\ files' = db.files
                 /\ file_history' = db.file_history
                 /\ last' = [op |-> "update", todo |-> todo, copied |-> copied,
                             returned |-> db.success, calls |-> last.calls + 1]
    /\ UNCHANGED <<backups, store, swift, worker, disc, faults, session>>

InitUpdate ==
    /\ \E st \in [1..2 -> BackupStatuses] :
         files = [id \in 1..2 |-> [NewRow(ProdFile(id, FALSE)) EXCEPT !.backup_status = st[id]]]
    /\ file_history = <<>>
    /\ backups = {}
    /\ store = {}
    /\ swift = <<>>
    /\ worker = <<>>
    /\ disc = <<>>
    /\ faults = 0
    /\ session = NoSession
    /\ last = [op |-> "none", todo |-> <<>>, copied |-> <<>>, returned |-> 0, calls |-> 0]

SpecUpdate == InitUpdate /\ [][UpdateCall]_vars

\* ------------------------------------------------- keys, paths and shards
\* The key of one (wiki, sha256) as the pipeline computes it, the shard the
\* existence check and the upload address for it, and the path
\* _query_backups reports for the backups row of the pair.

HexDigits == {"0", "1", "2", "3", "4", "5", "6", "7",
              "8", "9", "a", "b", "c", "d", "e", "f"}

\* hexdigests, cut to four digits like sha256sum's
Hashes == {<<a, b, "8", "6">> : a \in HexDigits, b \in {"0", "f"}}

Wikis == {"pubwiki", "privwiki"}

NoKey == <<"", <<>>, <<>>, "">>

\* download_and_backup: backup_name = calculate_backup_storage_path(f, ...)
CalculateKey ==
    /\ "key" \notin last.steps
    /\ last' = [last EXCEPT !.steps = @ \cup {"key"},
                            !.backup_name = calculate_backup_storage_path(last.wiki, last.sha256)]
    /\ UNCHANGED <<files, file_history, backups, store, swift, worker, disc, faults, session>>

\* S3.check_file_exists(backup_name): the client find_shard gives
HeadKey ==
    /\ "key" \in last.steps /\ "head" \notin last.steps
    /\ last' = [last EXCEPT !.steps = @ \cup {"head"},
                            !.head_shard = find_shard(last.backup_name) - 1]
    /\ UNCHANGED <<files, file_history, backups, store, swift, worker, disc, faults, session>>

\* S3.upload_file(download_path, backup_name): the client find_shard gives,
\* and the location id returned
UploadKey ==
    /\ "head" \in last.steps /\ "upload" \notin last.steps
    /\ last' = [last EXCEPT !.steps = @ \cup {"upload"},
                            !.upload_shard = find_shard(last.backup_name) - 1,
                            !.location = find_shard(last.backup_name)]
    /\ UNCHANGED <<files, file_history, backups, store, swift, worker, disc, faults, session>>

\* _query_backups on the backups row of the pair
ReportPath ==
    /\ "report" \notin last.steps
    /\ last' = [last EXCEPT !.steps = @ \cup {"report"},
                            !.backup_path = backup_path(last.wiki, last.sha256)]
    /\ UNCHANGED <<files, file_history, backups, store, swift, worker, disc, faults, session>>

InitKeys ==
    /\ files = InitFiles
    /\ file_history = <<>>
    /\ backups = {}
    /\ store = {}
    /\ swift = [id \in 1..NumRevisions |-> FALSE]
    /\ worker = <<>>
    /\ disc = <<>>
    /\ faults = 0
    /\ session = NoSession
    /\ \E wiki \in Wikis, sha256 \in Hashes :
         last = [op |-> "keys", wiki |-> wiki, sha256 |-> sha256, steps |-> {},
                 backup_name |-> NoKey, backup_path |-> NoKey,
                 head_shard |-> 0, upload_shard |-> 0, location |-> 0]

Keys == CalculateKey \/ HeadKey \/ UploadKey \/ ReportPath

SpecKeys == InitKeys /\ [][Keys]_vars

\* ----------------------------------------------------------- recovery
\* restore-media-file / MetadataQuery.recover_to_local: the files a search
\* found are downloaded from the backup store into the working directory
\* and, for keys ending in .age, decrypted.

\* a local or stored file: the bytes of a content, or age's output for them
Plain(content) == [enc |-> FALSE, of |-> content]
Encrypted(content) == [enc |-> TRUE, of |-> content]

\* the digest of an age file: some digest, not the one of its plaintext
AgeDigest(content) ==
    LET d == sha256sum(content) IN <<d[4], d[3], d[2], d[1]>>

\* sha256sum of a local file
Sha256OfFile(x) == IF x.enc THEN AgeDigest(x.of) ELSE sha256sum(x.of)

\* what the pipeline uploaded under the key of (wiki, sha256): the download
\* itself, or download_path + '.age' after handle_encryption
StoredObject(f) ==
    LET content == CHOOSE c \in {ContentOf(id) : id \in 1..NumRevisions} :
                       sha256sum(c) = f.sha256
    IN IF f.wiki \in NonPublicWikis THEN Encrypted(content) ELSE Plain(content)

\* a name in the working directory: the basename of production_path, the
\* '~' appended to it, and whether '.age' follows
LocalName(base, tildes, age) == [base |-> base, tildes |-> tildes, age |-> age]

\* download_path: "while os.path.exists(download_path): download_path += '~'"
DownloadPath(dir, base) ==
    LET taken == {x.name.tildes : x \in {y \in dir : y.name.base = base /\ ~y.name.age}}
        n == CHOOSE k \in 0..Cardinality(dir) : k \notin taken /\ \A j \in 0..(k - 1) : j \in taken
    IN LocalName(base, n, FALSE)

\* writing a file replaces the one of that name
WriteLocal(dir, name, content) ==
    {x \in dir : x.name # name} \cup {[name |-> name, content |-> content]}

\* Encryption.decrypt(target_filename): age --decrypt --output
\* target_filename target_filename + '.age'; the exit code is 0 when the
\* input exists and is an age file
DecryptInput(target) == [target EXCEPT !.age = TRUE]

decrypt(dir, target) ==
    LET input == {x \in dir : x.name = DecryptInput(target) /\ x.content.enc} IN
    IF input = {}
    THEN [code |-> 1, dir |-> dir]
    ELSE [code |-> 0,
          dir |-> WriteLocal(dir, target, Plain((CHOOSE x \in input : TRUE).content.of))]

DownloadAnswers(st, key) == IF key \in st THEN {"ok", "ClientError"} ELSE {"ClientError"}

NotTried == [head |-> "none", download |-> "none", decrypt |-> "none",
             path |-> LocalName(<<>>, 0, FALSE), counted |-> FALSE]

\* restore_media_file.main up to recover_to_local: the search, and the
\* working directory the operator runs it in (empty, or already holding a
\* file named like the first revision)
StartRestore ==
    /\ session.pc = "none"
    /\ \E matched \in SUBSET (DOMAIN files),
          dir \in {{}, {[name |-> LocalName(files[1].storage_path, 0, FALSE),
                         content |-> Plain(ContentOf(1))]}} :
         LET file_list == query_backups(files, backups, matched) IN
         session' = [pc |-> IF Len(file_list) = 0 THEN "exit" ELSE "recover",
                     files |-> file_list, idx |-> 1, recovered_files |-> 0,
                     dir |-> dir,
                     met |-> [k \in DOMAIN file_list |-> NotTried]]
    /\ UNCHANGED <<files, file_history, backups, store, swift, worker, disc, faults, last>>

\* recover_to_local: one pass of the loop
RecoverFile ==
    /\ session.pc = "recover"
    /\ LET f == session.files[session.idx]
           k == session.idx
           download_path == DownloadPath(session.dir, f.production_path)
           Next_(s) == IF k < Len(session.files)
                       THEN [s EXCEPT !.idx = k + 1]
                       ELSE [s EXCEPT !.pc = "exit"]
           tried == [NotTried EXCEPT !.path = download_path]
       IN \E head \in HeadAnswers(store, f.backup_path) :
            IF ~check_file_exists(head)
            THEN session' = Next_([session EXCEPT !.met[k] = [tried EXCEPT !.head = head]])
            ELSE \E answer \in DownloadAnswers(store, f.backup_path) :
                   IF answer # "ok"
                   THEN session' = Next_([session EXCEPT !.met[k] =
                                            [tried EXCEPT !.head = head, !.download = answer]])
                   ELSE LET saved == WriteLocal(session.dir, download_path, StoredObject(f))
                            got == [tried EXCEPT !.head = head, !.download = "ok"]
                        IN IF f.backup_path[4] = ".age"
                           THEN LET d == decrypt(saved, download_path) IN
                                IF d.code # 0
                                THEN session' = Next_([session EXCEPT
                                        !.dir = d.dir,
                                        !.met[k] = [got EXCEPT !.decrypt = "failed"]])
                                ELSE session' = Next_([session EXCEPT
                                        !.dir = d.dir,
                                        !.recovered_files = @ + 1,
                                        !.met[k] = [got EXCEPT !.decrypt = "ok",
                                                               !.counted = TRUE]])
                           ELSE session' = Next_([session EXCEPT
                                        !.dir = saved,
                                        !.recovered_files = @ + 1,
                                        !.met[k] = [got EXCEPT !.counted = TRUE]])
    /\ UNCHANGED <<files, file_history, backups, store, swift, worker, disc, faults, last>>

Restore == StartRestore \/ RecoverFile

SpecRestore == InitDeletion /\ [][Restore]_vars

\* ------------------------------------------- a pipeline pass running to its end

\* the next statement of the backup_wiki process w, whichever it is
WorkerStep(w) ==
    \/ ClaimBatch(w)
    \/ ClaimLosesConnection(w)
    \/ ClaimRetry(w)
    \/ DownloadAndCheck(w)
    \/ EncryptAndUpload(w)
    \/ UpdateStatusRow(w)
    \/ UpdateStatusInsert(w)
    \/ UpdateStatusInsertFails(w)

\* the for loop of main() ended because the generator returned
PassEnded(w) == worker[w].pc = "done"

\* the process is gone: the loop ended or an exception nothing caught rose
ProcessEnded(w) == worker[w].pc \in {"done", "raised"}

\* Every backup_wiki process keeps executing while it has a statement to
\* run; nothing inserts or re-arms a row (no discovery process).
SpecPass == InitPipeline /\ [][Pipeline]_vars /\ \A w \in Workers : WF_vars(WorkerStep(w))

\* ------------------------------ discovery and pipeline after a deletion

\* The database after an executed deletion session for revision 1:
\* mark_as_deleted has set its row to hard-deleted and removed the backups
\* row, delete_files has removed the object; revision 2 has been inserted
\* since and is pending. Discovery and the workers then run as in Spec.
InitAfterDeletion ==
    /\ files = <<BackedUp(1, "hard-deleted"), NewRow(ProdFile(2, FALSE))>>
    /\ file_history = <<>>
    /\ backups = {}
    /\ store = {}
    /\ swift = [id \in 1..2 |-> FALSE]
    /\ worker = [w \in Workers |-> IdleWorker]
    /\ disc = [d \in Discoverers |-> IdleDisc]
    /\ faults = 0
    /\ session = NoSession
    /\ last = NoCall

SpecAfterDeletion == InitAfterDeletion /\ [][Next]_vars

\* ------------------------------------- shard selection for any endpoint list

\* the longest list of endpoints a configuration of the model gives
MaxEndpoints == 5

\* S3.find_shard with num_shards = len(self.clients):
\* int(upload_name.split('/')[-1][0], 16) // num_shards
ShardIndex(num_shards, upload_name) == HexValue(upload_name[3][1]) \div num_shards

\* self.clients[shard]: the position of the client, or -1 for the IndexError
\* of a position past the end of the list
ClientAt(num_shards, shard) == IF shard < num_shards THEN shard ELSE -1

\* S3.check_file_exists(backup_name) with no shard given: find_shard
SelectForHead ==
    /\ last.head_client = -2
    /\ last' = [last EXCEPT !.head_shard = ShardIndex(last.num_shards, last.backup_name),
                            !.head_client = ClientAt(last.num_shards,
                                              ShardIndex(last.num_shards, last.backup_name))]
    /\ UNCHANGED <<files, file_history, backups, store, swift, worker, disc, faults, session>>

\* S3.upload_file(file_path, backup_name), reached when the existence check
\* returned: find_shard again
SelectForUpload ==
    /\ last.head_client >= 0 /\ last.upload_client = -2
    /\ last' = [last EXCEPT !.upload_shard = ShardIndex(last.num_shards, last.backup_name),
                            !.upload_client = ClientAt(last.num_shards,
                                                ShardIndex(last.num_shards, last.backup_name))]
    /\ UNCHANGED <<files, file_history, backups, store, swift, worker, disc, faults, session>>

\* an S3 object built from a configuration with 1..MaxEndpoints endpoints,
\* and the key of one file
InitShards ==
    /\ files = InitFiles
    /\ file_history = <<>>
    /\ backups = {}
    /\ store = {}
    /\ swift = [id \in 1..NumRevisions |-> FALSE]
    /\ worker = <<>>
    /\ disc = <<>>
    /\ faults = 0
    /\ session = NoSession
    /\ \E n \in 1..MaxEndpoints, wiki \in Wikis, sha256 \in Hashes :
         last = [op |-> "shard", num_shards |-> n,
                 backup_name |-> calculate_backup_storage_path(wiki, sha256),
                 head_shard |-> 0, head_client |-> -2,
                 upload_shard |-> 0, upload_client |-> -2]

Shards == SelectForHead \/ SelectForUpload

SpecShards == InitShards /\ [][Shards]_vars

\* ----------------------------------- the temporary directory of a process

\* download_file_from_production: os.path.join(tmp_dir, basename of
\* storage_path); age is whether '.age' follows
TmpName(f, age) == [base |-> f.storage_path, age |-> age]

\* how download_and_backup can end for a file
BackupOutcomes(f) ==
    {"DownloadException", "DuplicateException", "UploadException", "backedup"}
        \cup (IF f.wiki \in NonPublicWikis THEN {"EncryptionException"} ELSE {})

\* the files download_and_backup has written into tmp_dir when it ends that
\* way: the download unless it failed, and download_path + '.age' once
\* handle_encryption has run for a non-public wiki
WrittenBy(f, outcome) ==
    IF outcome = "DownloadException" THEN {}
    ELSE {TmpName(f, FALSE)}
         \cup (IF f.wiki \in NonPublicWikis /\ outcome \in {"UploadException", "backedup"}
               THEN {TmpName(f, TRUE)} ELSE {})

\* main()'s variable download_path after the call
\* download_and_backup(f, tmp_dir, download_path, ...): the callee assigns
\* to its own parameter, the caller's variable keeps what it held
AfterCall(callers_download_path, f, outcome) == callers_download_path

\* the finally block of main(): "if download_path is not None:
\* os.remove(download_path)"; download_path is {} for None
RemoveDownload(dir, download_path) == dir \ download_path

\* remove_tmp_dir: os.rmdir(tmp_dir) removes an empty directory, the
\* OSError of a non-empty one is logged
RmDir(dir) == dir = {}

\* main(): "download_path = None" and the call of download_and_backup for
\* the next file of the batch
BackupOne ==
    /\ last.pc = "call"
    /\ \E outcome \in BackupOutcomes(row2File(files[last.todo[last.idx]])) :
         LET f == row2File(files[last.todo[last.idx]]) IN
         last' = [last EXCEPT !.pc = "finally",
                              !.outcome = outcome,
                              !.tmp_dir = @ \cup WrittenBy(f, outcome),
                              !.download_path = AfterCall({}, f, outcome)]
    /\ UNCHANGED <<files, file_history, backups, store, swift, worker, disc, faults, session>>

\* main(): the finally block, then the next file or the end of the loop
FinallyRemove ==
    /\ last.pc = "finally"
    /\ last' = [last EXCEPT !.tmp_dir = RemoveDownload(@, last.download_path),
                            !.processed = @ \cup {last.todo[last.idx]},
                            !.idx = @ + 1,
                            !.pc = IF last.idx < Len(last.todo) THEN "call" ELSE "cleanup"]
    /\ UNCHANGED <<files, file_history, backups, store, swift, worker, disc, faults, session>>

\* main(): remove_tmp_dir(tmp_dir) after the loop
RemoveTmpDir ==
    /\ last.pc = "cleanup"
    /\ last' = [last EXCEPT !.pc = "end", !.dir_exists = ~RmDir(last.tmp_dir)]
    /\ UNCHANGED <<files, file_history, backups, store, swift, worker, disc, faults, session>>

\* create_tmp_dir made an empty directory; the process goes through the
\* rows that are pending, in id order
InitTmp ==
    /\ files = InitFiles
    /\ file_history = <<>>
    /\ backups = {}
    /\ store = {}
    /\ swift = [id \in 1..NumRevisions |-> FALSE]
    /\ worker = <<>>
    /\ disc = <<>>
    /\ faults = 0
    /\ session = NoSession
    /\ \E pending \in (SUBSET (DOMAIN InitFiles)) \ {{}} :
         last = [op |-> "backup", pc |-> "call", todo |-> SortedSeq(pending), idx |-> 1,
                 outcome |-> "none", tmp_dir |-> {}, download_path |-> {},
                 processed |-> {}, dir_exists |-> TRUE]

Tmp == BackupOne \/ FinallyRemove \/ RemoveTmpDir

SpecTmp == InitTmp /\ [][Tmp]_vars

\* ------------------------------ the pipeline on metadata with a wrong sha1

\* the sha1 a files row can hold that is not the one of the content: the
\* hash of other bytes, or none
WrongSha1 == {"00", NULL}

\* the files table of InitPipeline where discovery recorded, for some
\* revisions, a sha1 that is not the one of the object production serves
InitMismatch ==
    /\ \E wrong \in (SUBSET (1..NumRevisions)) \ {{}}, sha1 \in WrongSha1 :
         files = [id \in 1..NumRevisions |->
                    IF id \in wrong THEN [InitFiles[id] EXCEPT !.sha1 = sha1]
                    ELSE InitFiles[id]]
    /\ file_history = <<>>
    /\ backups = {}
    /\ store = {}
    /\ swift = [id \in 1..NumRevisions |-> FALSE]
    /\ worker = [w \in Workers |-> IdleWorker]
    /\ disc = <<>>
    /\ faults = 0
    /\ session = NoSession
    /\ last = NoCall

SpecMismatch == InitMismatch /\ [][Pipeline]_vars

\* ------------------------------------- MySQLMedia: paging over the titles

\* None as a limit of get_image_ranges (titles are sequences of bytes)
NoLimit == <<-1>>

\* the order of the paging column (img_name, oi_name, fa_name: varbinary):
\* byte by byte, a proper prefix first
RECURSIVE Less(_, _)
Less(a, b) ==
    IF b = <<>> THEN FALSE
    ELSE IF a = <<>> THEN TRUE
    ELSE IF a[1] # b[1] THEN a[1] < b[1]
    ELSE Less(Tail(a), Tail(b))

\* the bytes of '0', 'c', 'h', 'm', 'q', 't'
SecondLetters == <<48, 99, 104, 109, 113, 116>>

\* MySQLMedia.get_image_ranges: the boundaries of a big wiki, '0', '05',
\* '1', '15', '19', '20', '2013', ... '9', then x + y for x in 'A'..'Z' and
\* y in '0chmqt', then '^', and five titles outside ASCII in UTF-8; [None,
\* None] for any other wiki
get_image_ranges(big) ==
    IF big
    THEN <<NoLimit,
           <<48>>, <<48, 53>>,
           <<49>>, <<49, 53>>, <<49, 57>>,
           <<50, 48>>, <<50, 48, 49, 51>>, <<50, 48, 49, 54>>, <<50, 48, 49, 56>>,
           <<50, 48, 49, 57>>, <<50, 48, 50, 48>>,
           <<51>>, <<52>>, <<53>>, <<54>>, <<55>>, <<56>>, <<57>> >>
         \o [k \in 1..(26 * 6) |-> <<65 + ((k - 1) \div 6), SecondLetters[((k - 1) % 6) + 1]>>]
         \o << <<94>>, <<208, 146>>, <<208, 155>>, <<208, 161>>, <<212, 181>>,
               <<229, 132, 128>>, NoLimit >>
    ELSE <<NoLimit, NoLimit>>

\* calculate_query: " AND `col` >= 'lower_limit'", or no filter for None
lower_filter(title, lower_limit) == lower_limit = NoLimit \/ ~Less(title, lower_limit)

\* a calculate_query whose upper limit is inclusive (C38's mutant)
UpperFilterInclusive(title, upper_limit) == upper_limit = NoLimit \/ ~Less(upper_limit, title)

\* calculate_query: " AND `col` < 'upper_limit'", or no filter for None
upper_filter(title, upper_limit) == upper_limit = NoLimit \/ Less(title, upper_limit)

\* calculate_query: the i-th query it yields, as its two limits
calculate_query(ranges, i) == [lower_limit |-> ranges[i], upper_limit |-> ranges[i + 1]]

\* the rows a query returns
RowsOf(table, query) ==
    {t \in table : lower_filter(t, query.lower_limit) /\ upper_filter(t, query.upper_limit)}

\* titles around every boundary: the boundary itself, the title just below
\* it, a longer title starting with it; and the empty title, one below '0'
\* and one above the last boundary
RangeTitles == {get_image_ranges(TRUE)[k] : k \in 2..(Len(get_image_ranges(TRUE)) - 1)}

SampleTitles ==
    RangeTitles
        \cup {Append(b, 95) : b \in RangeTitles}
        \cup {[b EXCEPT ![Len(b)] = @ - 1] : b \in RangeTitles}
        \cup {<<>>, <<33>>, <<240, 159, 152, 128>>}

\* list_files: the next query of calculate_query is run and its rows read
RunQuery ==
    /\ last.i < Len(last.ranges)
    /\ LET rows == RowsOf(last.table, calculate_query(last.ranges, last.i)) IN
       last' = [last EXCEPT !.i = @ + 1,
                            !.queries = @ + 1,
                            !.unbounded = @ + (IF calculate_query(last.ranges, last.i)
                                                    = [lower_limit |-> NoLimit, upper_limit |-> NoLimit]
                                               THEN 1 ELSE 0),
                            !.returned = [t \in last.table |->
                                            last.returned[t] + (IF t \in rows THEN 1 ELSE 0)]]
    /\ UNCHANGED <<files, file_history, backups, store, swift, worker, disc, faults, session>>

\* a source table of a big or a small wiki before list_files reads it
InitPaging ==
    /\ files = <<>>
    /\ file_history = <<>>
    /\ backups = {}
    /\ store = {}
    /\ swift = <<>>
    /\ worker = <<>>
    /\ disc = <<>>
    /\ faults = 0
    /\ session = NoSession
    /\ \E big \in BOOLEAN, table \in {SampleTitles, RangeTitles, {<<>>, <<65, 98>>}} :
         last = [op |-> "list_files", big |-> big, ranges |-> get_image_ranges(big),
                 table |-> table, i |-> 1, queries |-> 0, unbounded |-> 0,
                 returned |-> [t \in table |-> 0]]

SpecPaging == InitPaging /\ [][RunQuery]_vars

\* ------------------------------------------ MySQLMedia._process_row (dates)

\* Names and paths are sequences of pieces: "/" and "!" are the separators,
\* any other piece is text without a separator. None is a name of its own.
NoName == <<"None">>

\* the MediaWiki timestamps strptime('%Y%m%d%H%M%S') accepts
ValidStamps == {"20221130132556", "20241130132556"}

\* Util.mwdate2datetime: the date, or 1970-01-01 00:00:01 on ValueError
mwdate2datetime(timestamp) ==
    IF timestamp \in ValidStamps THEN timestamp ELSE "19700101000001"

\* s.split('!')[0] of a name holding a '!': the text before the first one
\* (a name holds at most one piece before it)
BeforeBang(name) == IF name[1] = "!" THEN "" ELSE name[1]

\* '!' in name
HasBang(name) == \E k \in DOMAIN name : name[k] = "!"

\* storage_path.rpartition('/')[-1]
AfterLastSlash(path) ==
    IF \E k \in DOMAIN path : path[k] = "/"
    THEN LET k == CHOOSE j \in DOMAIN path :
                     path[j] = "/" /\ \A i \in DOMAIN path : path[i] = "/" => i <= j
         IN SubSeq(path, k + 1, Len(path))
    ELSE path

\* _process_row: storage_name, from storage_path when the row has one (not
\* None, not empty), else upload_name
storage_name(row) ==
    IF row.storage_path # NoName /\ row.storage_path # <<>>
    THEN AfterLastSlash(row.storage_path)
    ELSE row.upload_name

\* _process_row: archived_timestamp of the File it returns
archived_timestamp(row) ==
    IF row.status = "public" THEN NULL
    ELSE IF row.archived_name = NoName
    THEN IF storage_name(row) = <<>> \/ storage_name(row) = NoName \/ ~HasBang(storage_name(row))
         THEN NULL
         ELSE mwdate2datetime(BeforeBang(storage_name(row)))
    ELSE IF row.archived_name = <<>> \/ ~HasBang(row.archived_name)
         THEN mwdate2datetime("19700101000001")
         ELSE mwdate2datetime(BeforeBang(row.archived_name))

\* the names a production row can carry: none, empty, a plain title, a
\* title behind a timestamp, behind something that is no timestamp, behind
\* nothing
RowNames ==
    {NoName, <<>>, <<"Test.jpeg">>, <<"20221130132556", "!", "Test.jpeg">>,
     <<"2022113", "!", "Test.jpeg">>, <<"!", "Test.jpeg">>}

\* the storage paths: none, empty, and the names behind a directory
RowPaths ==
    {NoName, <<>>} \cup {<<"path", "/">> \o n : n \in RowNames \ {NoName, <<>>}}
        \cup {<<"path", "/", "20241130132556", "!", "Test.jpeg">>}

\* list_files: _process_row(row) for the row read
ProcessRow ==
    /\ last.pc = "row"
    /\ last' = [last EXCEPT !.pc = "file",
                            !.archived_timestamp = archived_timestamp(last.row)]
    /\ UNCHANGED <<files, file_history, backups, store, swift, worker, disc, faults, session>>

\* list_files: the next row of the cursor
NextRow ==
    /\ last.pc = "file"
    /\ \E status \in {"public", "archived", "deleted"}, archived_name \in RowNames,
          storage_path \in RowPaths, upload_name \in {NoName, <<"Test.jpeg">>} :
         last' = [last EXCEPT !.pc = "row",
                              !.row = [status |-> status, archived_name |-> archived_name,
                                       storage_path |-> storage_path,
                                       upload_name |-> upload_name]]
    /\ UNCHANGED <<files, file_history, backups, store, swift, worker, disc, faults, session>>

InitProcessRow ==
    /\ files = <<>>
    /\ file_history = <<>>
    /\ backups = {}
    /\ store = {}
    /\ swift = <<>>
    /\ worker = <<>>
    /\ disc = <<>>
    /\ faults = 0
    /\ session = NoSession
    /\ last = [op |-> "_process_row", pc |-> "file",
               row |-> [status |-> "public", archived_name |-> NoName,
                        storage_path |-> <<"Test.jpeg">>, upload_name |-> <<"Test.jpeg">>],
               archived_timestamp |-> NULL]

SpecProcessRow == InitProcessRow /\ [][ProcessRow \/ NextRow]_vars

\* =================================================================== claims
\* Checked under Spec (workers and discovery on one database) unless a
\* claim names SpecPipeline, SpecDeletion or SpecDiscovery.

Edges == {<<"pending", "processing">>, <<"processing", "backedup">>,
          <<"processing", "duplicate">>, <<"processing", "error">>,
          <<"error", "pending">>}

\* C1: every change of a row's backup_status made by process_files,
\* update_status or update follows one of the edges pending->processing,
\* processing->backedup, processing->duplicate, processing->error,
\* error->pending, under any interleaving of discovery and workers.
C1_TransitionsFollowEdges ==
    [][\A id \in DOMAIN files :
         files'[id].backup_status # files[id].backup_status
           => <<files[id].backup_status, files'[id].backup_status>> \in Edges]_vars

\* C2: in every reachable state every files row with backup_status backedup
\* has a backups row with the row's wiki and the sha256 of its content.
C2_BackedupHasBackupsRow ==
    \A id \in DOMAIN files :
        files[id].backup_status = "backedup"
          => \E b \in backups : /\ b.wiki = files[id].wiki
                                /\ b.sha256 = sha256sum(ContentOf(id))

BatchIds(b) == {b[k].id : k \in DOMAIN b}

Entries == {wk \in (DOMAIN worker) \X (1..BatchSize) : wk[2] <= Len(worker[wk[1]].status_list)}

EntryAt(wk) == worker[wk[1]].status_list[wk[2]]

\* C9: a failure of download, hashing, existence check, encryption or upload
\* is caught at that file and recorded as error, and update_status is called
\* with one entry per file of the batch, in the batch's order.
C9_FailuresRecordedAsError ==
    /\ \A w \in DOMAIN worker : ~(worker[w].pc = "raised" /\ worker[w].cur = "hashing")
    /\ \A wk \in Entries :
         LET e == EntryAt(wk) IN
         ( \/ e.obs.download = "failed"
           \/ e.obs.head = "500"
           \/ e.obs.encrypt = "failed"
           \/ e.obs.upload = "failed" ) => e.status = "error"
    /\ \A w \in DOMAIN worker :
         worker[w].pc \in {"status", "insert"} =>
            /\ Len(worker[w].status_list) = Len(worker[w].batch)
            /\ \A k \in DOMAIN worker[w].batch :
                 worker[w].status_list[k].id = worker[w].batch[k].id

SessionChangedNothing ==
    /\ files = session.before.files
    /\ backups = session.before.backups
    /\ store = session.before.store

\* C3 (SpecDeletion): no delete is issued to the backup store unless every
\* file of the session with a production_url has answered 404 to the probe;
\* any other status ends the session with exit code 6 and a probe that times
\* out ends it with exit code 7, both before any delete call and before any
\* change of the metadata.
C3_ProbeGate ==
    session.pc # "none" =>
      /\ session.delete_calls > 0 =>
           \A k \in DOMAIN session.files :
               session.files[k].production_url # NoUrl => session.met[k] = "404"
      /\ (\E k \in DOMAIN session.met : session.met[k] = "200") =>
           /\ session.pc = "exit" /\ session.code = 6
           /\ session.delete_calls = 0 /\ SessionChangedNothing
      /\ (\E k \in DOMAIN session.met : session.met[k] = "timeout") =>
           /\ session.pc = "exit" /\ session.code = 7
           /\ session.delete_calls = 0 /\ SessionChangedNothing

\* C4 (SpecDeletion): a session in dry mode deletes no object of the backup
\* store and deletes or modifies no row of backups or files: at every point
\* of the session both are as they were when it began.
C4_DryModeChangesNothing ==
    (session.pc # "none" /\ session.dry_mode) => SessionChangedNothing

\* C4 witness: a dry session that went through delete_files and
\* mark_as_deleted for two files and ended without an error.
C4_Witness ==
    /\ session.pc = "exit" /\ session.code = 0
    /\ session.dry_mode
    /\ Len(session.deleted_files) >= 2
    /\ session.idx > Len(session.deleted_files)
    /\ session.errors = 0

\* C5 (SpecDiscovery): a call of check_and_update that follows a call with the
\* same batch, nothing having changed in between, returns 0, inserts no
\* files row, updates none and appends no file_history row.
C5_SecondCallChangesNothing ==
    [][( /\ last.op = "check_and_update"
         /\ last'.op = "check_and_update"
         /\ last'.calls = last.calls + 1
         /\ last'.batch = last.batch )
        => ( /\ last'.returned = 0
             /\ files' = files
             /\ file_history' = file_history )]_vars

RevisionKey(row) == <<row.wiki, row.sha1, row.size, row.upload_timestamp>>

\* C6 (SpecDiscovery): in every reachable state no two files rows have the
\* same (wiki, sha1, size, upload_timestamp), whatever calls of add and
\* check_and_update were made.
C6_OneRowPerRevision ==
    \A i, j \in DOMAIN files :
        i # j => RevisionKey(files[i]) # RevisionKey(files[j])

C11_FailedCallLeavesNothing ==
    [][(last'.op = "update_status" /\ (last'.raised \/ last'.returned = -1))
         => (files' = files /\ backups' = backups)]_vars

\* C12 (SpecUpdateStatus): when the backups insert of one entry fails with
\* an error that is not a unique-key conflict, the entries that follow it
\* in the same call still get their backup_status applied.
C12_InsertErrorContinues ==
    [][(last'.op = "update_status" /\ last'.fault_at # 0 /\ last'.reached >= last'.fault_at
        /\ ~last'.raised)
         => \A k \in DOMAIN last'.file_list :
              k > last'.fault_at
                => files'[last'.file_list[k].id].backup_status = last'.file_list[k].status]_vars

\* no worker is at work and every row has a terminal backup_status
Quiescent ==
    /\ \A w \in DOMAIN worker : worker[w].pc \in {"idle", "done", "killed", "raised"}
    /\ \A id \in DOMAIN files : files[id].backup_status \in TerminalStatuses

\* C13 (SpecRecovery): when the rows a killed worker left in processing are
\* reset to pending and processed again, they end as in a run without the
\* kill: for every object the store holds, one row of that wiki and content
\* is backedup and the backups ledger has its (wiki, sha256).
C13_SameTerminalStateAfterKill ==
    Quiescent =>
      \A id \in DOMAIN files :
          BackupKey(id) \in store =>
            /\ \E j \in DOMAIN files :
                 /\ BackupKey(j) = BackupKey(id)
                 /\ files[j].backup_status = "backedup"
            /\ \E b \in backups :
                 /\ b.wiki = files[id].wiki
                 /\ b.sha256 = sha256sum(ContentOf(id))

SamePair(a, b) == a.wiki = b.wiki /\ a.sha256 = b.sha256

\* C14 (SpecUpdateStatus): after any sequence of update_status calls the
\* backups ledger holds at most one row per (wiki, sha256); when the insert
\* of a backedup entry meets a row of its (wiki, sha256), the rows of the
\* ledger stay as they are, the call still returns 0 and the file's
\* backup_status is backedup.
C14_LedgerUniquePerWikiSha256 ==
    [][ /\ \A b1, b2 \in backups' : SamePair(b1, b2) => b1 = b2
        /\ (last'.op = "update_status" /\ ~last'.raised /\ last'.fault_at = 0) =>
             \A k \in DOMAIN last'.file_list :
                 LET e == last'.file_list[k]
                     met == \/ \E b \in backups : SamePair(b, e)
                            \/ \E j \in 1..(k - 1) :
                                 /\ last'.file_list[j].status = "backedup"
                                 /\ SamePair(last'.file_list[j], e)
                 IN (e.status = "backedup" /\ met) =>
                      /\ last'.returned = 0
                      /\ files'[e.id].backup_status = "backedup"
                      /\ \A b \in backups : b \in backups'
                      /\ Cardinality({b \in backups' : SamePair(b, e)}) = 1
      ]_vars

\* C14 witness: one call applied two backedup entries of the same
\* (wiki, sha256); it returned 0, both rows are backedup and the ledger has
\* one row for the pair.
C14_Witness ==
    /\ last.op = "update_status" /\ last.returned = 0 /\ ~last.raised
    /\ Len(last.file_list) = 2
    /\ last.file_list[1].status = "backedup" /\ last.file_list[2].status = "backedup"
    /\ SamePair(last.file_list[1], last.file_list[2])
    /\ files[last.file_list[1].id].backup_status = "backedup"
    /\ files[last.file_list[2].id].backup_status = "backedup"
    /\ Cardinality({b \in backups : SamePair(b, last.file_list[1])}) = 1

\* C15 (SpecUpdateStatus): update_status applied a second time with the
\* same entries succeeds like the first time and leaves files and backups
\* as the first call left them.
C15_SecondApplicationSucceeds ==
    [][( /\ last.op = "update_status" /\ last'.op = "update_status"
         /\ last'.calls = last.calls + 1
         /\ last.returned = 0 /\ ~last.raised
         /\ last'.file_list = last.file_list
         /\ last'.fault_at = 0 )
        => ( /\ ~last'.raised /\ last'.returned = 0
             /\ files' = files
             /\ backups' = backups )]_vars

\* check_file_exists returned a value to download_and_backup
ExistsReturned(o) == \E k \in DOMAIN o.steps : o.steps[k] = "exists"

\* C16 (SpecPipeline): the existence check answers true when the HEAD
\* request succeeds and false when the store answers 404; on any other
\* error of the store it raises, so it returns no value.
C16_ExistenceCheckAnswers ==
    \A wk \in Entries :
        LET o == EntryAt(wk).obs IN
        /\ (o.head = "200" => (ExistsReturned(o) /\ o.exists))
        /\ (o.head = "404" => (ExistsReturned(o) /\ ~o.exists))
        /\ (o.head = "500" => ~ExistsReturned(o))

\* C17 (SpecDeletion): in an executed deletion, a file whose (wiki, sha256)
\* is that of a file deleted earlier in the same batch is among the files
\* delete_files returned, and mark_as_deleted counts no error for it.
C17_SharedBackupIsNoError ==
    [][( /\ session.pc = "mark" /\ ~session.dry_mode
         /\ session.idx <= Len(session.deleted_files)
         /\ \E j \in 1..(session.idx - 1) :
              SameBackup(session.deleted_files[j], session.deleted_files[session.idx]) )
        => session'.errors = session.errors]_vars

\* C18 (SpecDeletion): for each file, mark_as_deleted without dry mode
\* removes the backups row of the file's (wiki, sha256) and sets the files
\* row's status to hard-deleted, leaving backup_status, the row's other
\* columns and every other row as they were; the error count grows by the
\* number of the two statements that did not affect exactly one row; and
\* the loop goes on to the next file whatever the count.
C18_MarkAsDeletedPerFile ==
    [][( /\ session.pc = "mark" /\ ~session.dry_mode
         /\ session.idx <= Len(session.deleted_files) )
        => LET f == session.deleted_files[session.idx]
               s1 == IF Cardinality(backups \ backups') # 1 THEN 1 ELSE 0
               s2 == IF files' = files THEN 1 ELSE 0
           IN /\ \A b \in backups' : ~SameBackup(b, f)
              /\ \A b \in backups : ~SameBackup(b, f) => b \in backups'
              /\ backups' \subseteq backups
              /\ files'[f.file_id].status = "hard-deleted"
              /\ files'[f.file_id] = [files[f.file_id] EXCEPT !.status = "hard-deleted"]
              /\ \A id \in DOMAIN files :
                   /\ files'[id].backup_status = files[id].backup_status
                   /\ id # f.file_id => files'[id] = files[id]
              /\ DOMAIN files' = DOMAIN files
              /\ session'.errors = session.errors + s1 + s2
              /\ session'.errors <= session.errors + 2
              /\ session'.pc = "mark"
              /\ session'.idx = session.idx + 1
              /\ session'.deleted_files = session.deleted_files]_vars

\* C18 witness: an executed session went through mark_as_deleted for two
\* files, counted an error on the way and still marked both hard-deleted.
C18_Witness ==
    /\ session.pc = "exit" /\ session.code = 0 /\ ~session.dry_mode
    /\ Len(session.deleted_files) = 2
    /\ session.errors > 0
    /\ \A k \in DOMAIN session.deleted_files :
         /\ files[session.deleted_files[k].file_id].status = "hard-deleted"
         /\ \A b \in backups : ~SameBackup(b, session.deleted_files[k])

\* C19 (SpecQuery): a statement is executed at most twice and the
\* connection reopened at most once; a first execute that raises
\* ProgrammingError or InternalError is followed by one reconnect and one
\* more execute; the value returned after a retry is the retry's; a retry
\* that raises one of the two errors again ends in MySQLQueryError; a first
\* execute that succeeds is the only one and reconnects nothing.
C19_QueryRetriedOnce ==
    LET q == last
        recoverable1 == q.out1 \in {"ProgrammingError", "InternalError"}
        recoverable2 == q.out2 \in {"ProgrammingError", "InternalError"}
        over == q.pc \in {"returned", "raised"}
    IN /\ q.executions <= 2 /\ q.connects <= 1
       /\ recoverable1 => q.pc \in {"reconnect", "retry", "fetch", "returned", "raised"}
       /\ (recoverable1 /\ over) => q.connects = 1
       /\ (recoverable1 /\ over /\ q.db = "reopened") => q.executions = 2
       /\ (q.pc = "returned" /\ recoverable1) =>
             (q.out2 = "ok" /\ q.result = q.res2 /\ q.executions = 2)
       /\ (over /\ recoverable1 /\ recoverable2) =>
             (q.pc = "raised" /\ q.exception = "MySQLQueryError")
       /\ q.exception = "MySQLQueryError" => (recoverable1 /\ recoverable2)
       /\ q.out1 = "ok" => (q.connects = 0 /\ q.executions = 1 /\ q.out2 = "none")
       /\ q.executions = 2 => (recoverable1 /\ q.connects = 1)

\* C19 witness: a statement whose first execute raised InternalError was
\* returned from its retry after one reconnect.
C19_Witness ==
    /\ last.pc = "returned" /\ last.out1 = "InternalError" /\ last.out2 = "ok"
    /\ last.connects = 1 /\ last.executions = 2 /\ last.result = last.res2
    /\ last.result > 0

\* C20 (SpecDiscovery): check_and_update decides each incoming file against
\* the stored rows of its wiki with the same sha1, size and upload_timestamp.
\* With no such row the file is inserted; with two or more it is neither
\* inserted nor used for an update; with exactly one, the row is left as it
\* is when status, upload_name, type, the two timestamps, container and path
\* all match, and otherwise its old values are copied to file_history once
\* and the row takes the incoming values in place. The call returns the
\* number of rows it changed plus the number it inserted.
C20_CheckAndUpdateDecisions ==
    [][(last'.op = "check_and_update" /\ last'.calls = last.calls + 1) =>
        LET batch == last'.batch
            Cand(f) == {id \in DOMAIN files :
                          /\ files[id].wiki = "pubwiki"
                          /\ f.sha1 # NULL /\ files[id].sha1 = f.sha1
                          /\ files[id].size = f.size
                          /\ f.upload_timestamp # NULL
                          /\ files[id].upload_timestamp = f.upload_timestamp}
            AllMatch(r, f) ==
                /\ r.status = f.status /\ r.upload_name = f.upload_name
                /\ r.type = f.type
                /\ r.archived_timestamp = f.archived_timestamp
                /\ r.deleted_timestamp = f.deleted_timestamp
                /\ r.storage_container = f.storage_container
                /\ r.storage_path = f.storage_path
            Inserted == {k \in DOMAIN batch : batch[k].sha1 # NULL /\ Cand(batch[k]) = {}}
            Sched(id) == {k \in DOMAIN batch :
                            Cand(batch[k]) = {id} /\ ~AllMatch(files[id], batch[k])}
            Copies(id) == {h \in (Len(file_history) + 1)..Len(file_history') :
                             file_history'[h].file_id = id}
        IN /\ Len(files') = Len(files) + Cardinality(Inserted)
           /\ \A k \in Inserted :
                \E i \in (Len(files) + 1)..Len(files') :
                    /\ files'[i].sha1 = batch[k].sha1
                    /\ files'[i].upload_name = batch[k].upload_name
                    /\ files'[i].upload_timestamp = batch[k].upload_timestamp
                    /\ files'[i].backup_status = "pending"
           /\ SubSeq(file_history', 1, Len(file_history)) = file_history
           /\ \A id \in DOMAIN files :
                IF Sched(id) = {}
                THEN files'[id] = files[id] /\ Copies(id) = {}
                ELSE /\ Cardinality(Copies(id)) = 1
                     /\ \A h \in Copies(id) :
                          /\ AllMatch(files[id], file_history'[h].file)
                          /\ file_history'[h].file.sha1 = files[id].sha1
                     /\ \E k \in Sched(id) :
                          LET f == batch[k]
                              r == files'[id]
                          IN /\ r.status = f.status /\ r.upload_name = f.upload_name
                             /\ r.type = f.type
                             /\ r.archived_timestamp = f.archived_timestamp
                             /\ r.deleted_timestamp = f.deleted_timestamp
                             /\ r.storage_path = f.storage_path
                             /\ r.storage_container =
                                  (IF f.storage_container \in KnownContainers
                                   THEN f.storage_container ELSE NULL)
                     /\ files'[id].sha1 = files[id].sha1
                     /\ files'[id].size = files[id].size
                     /\ files'[id].upload_timestamp = files[id].upload_timestamp
           /\ last'.returned = Cardinality({id \in DOMAIN files : files'[id] # files[id]})
                               + Cardinality(Inserted)
      ]_vars

\* C20 witness: one call of check_and_update updated a stored row from the
\* one incoming file that matched it, copying the old values to
\* file_history, inserted the other incoming file, and returned 2.
C20_Witness ==
    /\ last.op = "check_and_update" /\ last.returned = 2
    /\ Len(last.batch) = 2 /\ Len(last.scheduled) = 1
    /\ Len(files) = 3 /\ Len(file_history) = 1
    /\ file_history[1].file_id = last.scheduled[1].id
    /\ files[last.scheduled[1].id].upload_name = last.scheduled[1].file.upload_name
    /\ files[last.scheduled[1].id] # last.scheduled[1].old

\* C21 (SpecDiscovery): check_and_update inserts an incoming file that has
\* no sha1: after the call the files table has a new row for it.
C21_NoSha1IsInserted ==
    [][(last'.op = "check_and_update" /\ last'.calls = last.calls + 1) =>
         \A k \in DOMAIN last'.batch :
             last'.batch[k].sha1 = NULL =>
                 \E i \in (Len(files) + 1)..Len(files') :
                     /\ files'[i].sha1 = NULL
                     /\ files'[i].upload_name = last'.batch[k].upload_name]_vars

\* C22 (SpecUpdate): for every id of the dictionary that has a row, update
\* copies the row's values as they were before the call into file_history
\* and only then changes the row; when the copy did not insert exactly one
\* row the live row stays as it was and the id is not counted; the value
\* returned is the number of ids whose copy inserted one row and whose
\* UPDATE changed one row.
C22_HistoryBeforeUpdate ==
    [][(last'.op = "update" /\ last'.calls = last.calls + 1) =>
        LET todo == last'.todo
            copied == last'.copied
            Known == {k \in DOMAIN todo : todo[k].id \in DOMAIN files}
            Copies(id) == {h \in (Len(file_history) + 1)..Len(file_history') :
                             file_history'[h].file_id = id}
            SameValues(r, g) ==
                /\ r.wiki = g.wiki /\ r.upload_name = g.upload_name
                /\ r.status = g.status /\ r.size = g.size /\ r.type = g.type
                /\ r.upload_timestamp = g.upload_timestamp
                /\ r.archived_timestamp = g.archived_timestamp
                /\ r.deleted_timestamp = g.deleted_timestamp
                /\ r.sha1 = g.sha1
                /\ r.storage_container = g.storage_container
                /\ r.storage_path = g.storage_path
        IN /\ SubSeq(file_history', 1, Len(file_history)) = file_history
           /\ DOMAIN files' = DOMAIN files
           /\ \A k \in Known :
                LET id == todo[k].id
                    f == todo[k].file
                IN IF copied[k] = 1
                   THEN /\ Cardinality(Copies(id)) = 1
                        /\ \A h \in Copies(id) : SameValues(files[id], file_history'[h].file)
                        /\ files'[id].upload_name = f.upload_name
                        /\ files'[id].storage_path = f.storage_path
                        /\ files'[id].status = f.status
                   ELSE /\ files'[id] = files[id]
                        /\ Copies(id) = {}
           /\ \A id \in DOMAIN files :
                (\A k \in Known : todo[k].id # id) =>
                    (files'[id] = files[id] /\ Copies(id) = {})
           /\ last'.returned =
                Cardinality({k \in Known : copied[k] = 1
                                           /\ files'[todo[k].id] # files[todo[k].id]})
      ]_vars

\* C22 witness: one call of update for two rows that both differ from the
\* incoming files; the history copy of the first inserted nothing and the
\* row is as it was, the second was copied and then changed; update
\* returned 1.
C22_Witness ==
    /\ last.op = "update" /\ Len(last.todo) = 2 /\ last.returned = 1
    /\ last.copied[1] = 0 /\ last.copied[2] = 1
    /\ last.todo[1].old.backup_status # "none"
    /\ last.todo[1].file.upload_name # last.todo[1].old.upload_name
    /\ files[last.todo[1].id] = last.todo[1].old
    /\ files[last.todo[2].id] # last.todo[2].old
    /\ Len(file_history) = 1
    /\ file_history[1].file_id = last.todo[2].id
    /\ file_history[1].file.storage_container = last.todo[2].old.storage_container

\* C23 (SpecPipeline): in a batch holding two files of one wiki with the
\* same sha256, once the first is backedup the second, when its download
\* and hashing succeed, finds the key in the store and is recorded as
\* duplicate; update_status sets the first row to backedup and leaves a
\* backups row for its (wiki, sha256), sets the second to duplicate and
\* attempts no backups insert for it.
C23_SecondOfPairIsDuplicate ==
    [][\A w \in DOMAIN worker :
         LET wk == worker[w]
             nx == worker'[w]
             sl == nx.status_list
         IN /\ \A j, k \in DOMAIN sl :
                 ( /\ j < k
                   /\ sl[j].status = "backedup"
                   /\ sl[k].obs.download = "ok"
                   /\ sl[k].wiki = sl[j].wiki
                   /\ sl[k].sha256 = sl[j].sha256 )
                 => ( /\ sl[k].status = "duplicate"
                      /\ sl[k].obs.exists
                      /\ sl[k].obs.upload = "none" )
            /\ (wk.pc = "status" /\ nx # wk) =>
                 LET e == wk.status_list[wk.idx] IN
                 /\ (e.status = "backedup" /\ nx.pc = "insert") =>
                       files'[e.id].backup_status = "backedup"
                 /\ e.status = "duplicate" =>
                       /\ nx.pc # "insert"
                       /\ backups' = backups
                       /\ nx.pc # "raised" => files'[e.id].backup_status = "duplicate"
            /\ (wk.pc = "insert" /\ nx # wk /\ faults' = faults) =>
                 LET e == wk.status_list[wk.idx] IN
                 /\ e.status = "backedup"
                 /\ \E b \in backups' : SamePair(b, e)
      ]_vars

\* C23 witness: one worker took rows 1 and 2 (one wiki, one sha256) as a
\* batch and finished it: row 1 is backedup with the only backups row, row
\* 2 is duplicate, nothing else was claimed and no connection was lost.
C23_Witness ==
    /\ faults = 0
    /\ \A w \in DOMAIN worker : worker[w].pc = "idle"
    /\ files[1].backup_status = "backedup"
    /\ files[2].backup_status = "duplicate"
    /\ files[3].backup_status = "pending"
    /\ Cardinality(backups) = 1
    /\ \A b \in backups : b.wiki = files[1].wiki /\ b.sha256 = sha256sum(ContentOf(1))
    /\ sha256sum(ContentOf(1)) = sha256sum(ContentOf(2))
    /\ files[1].wiki = files[2].wiki

\* C24 (SpecKeys): the key under which the pipeline uploads a file and the
\* backup_path _query_backups reports for the same wiki and sha256 are both
\* wiki / first three digits of sha256 / sha256, ending in .age exactly when
\* the wiki is non-public; the two are equal.
C24_KeyEqualsReportedPath ==
    LET wiki == last.wiki
        sha256 == last.sha256
        private == wiki = "privwiki"
        Shaped(p) == /\ Len(p) = 4
                     /\ p[1] = wiki
                     /\ p[2] = <<sha256[1], sha256[2], sha256[3]>>
                     /\ p[3] = sha256
                     /\ (p[4] = ".age") = private
                     /\ p[4] \in {"", ".age"}
    IN /\ "key" \in last.steps => Shaped(last.backup_name)
       /\ "report" \in last.steps => Shaped(last.backup_path)
       /\ ("key" \in last.steps /\ "report" \in last.steps) =>
             last.backup_name = last.backup_path

\* C24 witness: for a file of the private wiki the pipeline's key and the
\* reported path were both computed, end in .age and are equal.
C24_Witness ==
    /\ last.op = "keys" /\ last.wiki = "privwiki"
    /\ {"key", "report"} \subseteq last.steps
    /\ last.backup_name[4] = ".age"
    /\ last.backup_name = last.backup_path

C25_RecoveredMatchesRecorded ==
    session.pc \in {"recover", "exit"} =>
        \A k \in DOMAIN session.files :
            LET m == session.met[k] IN
            (m.head = "200" /\ m.download = "ok") =>
                /\ m.counted
                /\ \E x \in session.dir :
                     /\ x.name = m.path
                     /\ Sha256OfFile(x.content) = session.files[k].sha256

\* C26 (Spec): the UPDATE of update sets backup_status to pending when the
\* row it read was in error and the incoming storage_path differs from the
\* stored one, and leaves backup_status as it is when the row it read was
\* not in error; a pass of process_files on a working connection claims
\* every pending row within its batch size (the row becomes processing and
\* is yielded) and no row that is not pending.
C26_RearmedRowIsClaimed ==
    [][ /\ \A d \in DOMAIN disc :
             (disc[d].pc = "write" /\ disc'[d].pc = "idle") =>
                LET u == disc[d] IN
                /\ (u.old_backup_status = "error" /\ u.old_storage_path # u.f.storage_path) =>
                      /\ files'[u.id].backup_status = "pending"
                      /\ files'[u.id].storage_path = u.f.storage_path
                /\ u.old_backup_status # "error" =>
                      files'[u.id].backup_status = files[u.id].backup_status
        /\ \A w \in DOMAIN worker :
             (worker[w].pc = "idle" /\ worker'[w].pc = "download") =>
                LET claimed == {worker'[w].batch[k].id : k \in DOMAIN worker'[w].batch}
                    pending == {i \in DOMAIN files : files[i].backup_status = "pending"}
                IN /\ claimed \subseteq pending
                   /\ \A i \in pending :
                        Cardinality({j \in pending : j < i}) < BatchSize => i \in claimed
                   /\ \A i \in claimed : files'[i].backup_status = "processing"
                   /\ \A i \in DOMAIN files :
                        i \notin claimed => files'[i].backup_status = files[i].backup_status
      ]_vars

\* C26 witness: with no connection lost, a worker holds a batch of one row
\* at its new address: the row was claimed with the other one in the first
\* pass, ended in error, was re-armed by an update (its old values are in
\* file_history) and a later pass claimed it again.
C26_Witness ==
    /\ faults = 0
    /\ \E w \in DOMAIN worker :
         /\ worker[w].pc = "download" /\ Len(worker[w].batch) = 1
         /\ LET id == worker[w].batch[1].id IN
            /\ files[id].backup_status = "processing"
            /\ files[id].storage_path = <<"path", id, TRUE>>
            /\ worker[w].batch[1].file.storage_path = <<"path", id, TRUE>>
            /\ \E h \in DOMAIN file_history :
                 /\ file_history[h].file_id = id
                 /\ file_history[h].file.storage_path = <<"path", id, FALSE>>
            /\ \A i \in DOMAIN files : i # id => files[i].backup_status \in {"backedup", "duplicate", "error"}

\* C27 (first half): with no row inserted or re-armed, every pipeline
\* process comes to an end after finitely many batches.
C27_EveryPassEnds == <>(\A w \in Workers : ProcessEnded(w))

\* C27 (at the end of a pass): no row is pending.
C27_NoPendingAtEnd ==
    \A w \in Workers :
        PassEnded(w) => \A i \in DOMAIN files : files[i].backup_status # "pending"

\* C27: when the passes have ended because process_files found no pending
\* row, every row they claimed is backedup, duplicate or error, none is
\* left in processing.
C27_NoneLeftProcessing ==
    (\A w \in Workers : PassEnded(w)) =>
        \A i \in DOMAIN files : files[i].backup_status \in {"backedup", "duplicate", "error"}

\* C29: under any interleaving of the pipeline processes, reconnect retries
\* of the claim included, a batch is yielded only of rows its process itself
\* turned from pending to processing, no row is turned to processing unless
\* it was pending, and a row another worker finished never goes back to
\* processing.
C29_OneClaimantPerRow ==
    [][ /\ \A w \in Workers :
             (worker[w].pc \in {"idle", "reclaim"} /\ worker'[w].pc = "download") =>
                \A k \in DOMAIN worker'[w].batch :
                    LET i == worker'[w].batch[k].id IN
                    /\ files[i].backup_status = "pending"
                    /\ files'[i].backup_status = "processing"
                    /\ \A v \in Workers \ {w} :
                          worker[v].pc # "reclaim" =>
                             \A j \in DOMAIN worker[v].batch : worker[v].batch[j].id # i
        /\ \A i \in DOMAIN files :
             (files'[i].backup_status = "processing" /\ files[i].backup_status # "processing") =>
                files[i].backup_status = "pending"
      ]_vars

\* C30: in every reachable state each files row that is backedup or
\* duplicate and not hard-deleted has an object stored under its backup key;
\* in particular a row is duplicate only if the object exists, whatever the
\* store answered to the existence check.
C30_BackedUpRowsHaveObject ==
    \A i \in DOMAIN files :
        (/\ files[i].backup_status \in {"backedup", "duplicate"}
         /\ files[i].status # "hard-deleted")
            => BackupKey(i) \in store

\* C31: under every interleaving of discovery and pipeline a row in error
\* was attempted at the address it records: a worker that writes error
\* tried the address the row holds at that moment, and an update that
\* changes the address of a row in error re-arms it to pending.
C31_ErrorRowAttemptedAtItsAddress ==
    [][ /\ \A w \in Workers :
             (worker[w].pc = "status" /\ worker'[w] # worker[w]) =>
                LET wk == worker[w]
                    e  == wk.status_list[wk.idx]
                    f  == wk.batch[wk.idx].file
                IN (e.status = "error" /\ files'[e.id].backup_status = "error") =>
                      /\ files'[e.id].storage_container = f.storage_container
                      /\ files'[e.id].storage_path = f.storage_path
        /\ \A i \in DOMAIN files :
             (/\ files[i].backup_status = "error"
              /\ \/ files'[i].storage_container # files[i].storage_container
                 \/ files'[i].storage_path # files[i].storage_path)
                => files'[i].backup_status = "pending"
      ]_vars

\* the files delete_files has put on the list it returns
Returned(f) ==
    \E j \in DOMAIN session.deleted_files : session.deleted_files[j].file_id = f.file_id

\* C32: only files that delete_files returned as deleted are set to
\* hard-deleted and lose their backups row; a file of the session that was
\* not returned (key not found, or the delete call failed) keeps its status
\* and its backups row.
C32_MarkedOnlyIfReturned ==
    session.pc # "none" =>
        /\ \A i \in DOMAIN files :
             files[i].status # session.before.files[i].status =>
                \E k \in DOMAIN session.files :
                    session.files[k].file_id = i /\ Returned(session.files[k])
        /\ \A b \in session.before.backups \ backups :
             \E k \in DOMAIN session.files :
                 SameBackup(b, session.files[k]) /\ Returned(session.files[k])
        /\ \A k \in DOMAIN session.files :
             ~Returned(session.files[k]) =>
                /\ files[session.files[k].file_id].status
                      = session.before.files[session.files[k].file_id].status
                /\ \E b \in backups : SameBackup(b, session.files[k])

\* C33: once a files row is hard-deleted, no discovery update changes its
\* status again, and no pipeline worker inserts a backups row for it.
C33_HardDeletedStays ==
    [][ /\ \A i \in DOMAIN files :
             files[i].status = "hard-deleted" => files'[i].status = "hard-deleted"
        /\ \A w \in Workers :
             (worker[w].pc = "insert" /\ backups' # backups) =>
                files[worker[w].status_list[worker[w].idx].id].status # "hard-deleted"
      ]_vars

\* C34: the history copy and the in-place update of a file are atomic: a
\* call of update leaves a new file_history row for a file exactly when it
\* changed the live row, and every file_history row names an existing files
\* row.
C34_HistoryMatchesAppliedUpdates ==
    [][ /\ \A id \in DOMAIN files :
             LET copies == {h \in (Len(file_history) + 1)..Len(file_history') :
                              file_history'[h].file_id = id}
             IN Cardinality(copies) = IF files'[id] # files[id] THEN 1 ELSE 0
        /\ \A h \in DOMAIN file_history' : file_history'[h].file_id \in DOMAIN files'
      ]_vars

\* C35: for every number of endpoints N >= 1 and every first hex digit of
\* the key's last component, the shard find_shard computes is the position
\* of a configured client (0 <= shard < N), so neither the existence check
\* nor the upload fails on shard selection.
C35_ShardIsAConfiguredClient ==
    /\ last.head_client # -2 =>
         /\ 0 <= last.head_shard /\ last.head_shard < last.num_shards
         /\ last.head_client = last.head_shard
    /\ last.upload_client # -2 =>
         /\ 0 <= last.upload_shard /\ last.upload_shard < last.num_shards
         /\ last.upload_client = last.upload_shard

\* C36: once main() is through with a file, whatever the outcome, neither
\* its downloaded copy nor its .age companion is in the temporary
\* directory; at the end of the run the directory is empty and removed.
C36_TmpDirCleaned ==
    /\ \A id \in last.processed :
         \A x \in last.tmp_dir : x.base # files[id].storage_path
    /\ last.pc = "end" => (last.tmp_dir = {} /\ ~last.dir_exists)

\* C37: when the sha1 computed from the download differs from the sha1 of
\* the metadata, the file is not failed for it: the worker goes on with the
\* computed sha1 and the sha256 of the download, and the backups row of a
\* backedup outcome carries the computed sha1.
C37_ComputedSha1IsTrusted ==
    [][\A w \in Workers :
         LET wk == worker[w]
             id == wk.batch[wk.idx].id
             content == ContentOf(id)
         IN /\ (wk.pc = "download" /\ worker'[w] # wk /\ wk.batch[wk.idx].file.sha1 # sha1sum(content)) =>
                 CASE worker'[w].pc = "raised" -> worker'[w].cur = "hashing"
                   [] worker'[w].pc = "upload" ->
                        /\ worker'[w].cur.sha1 = sha1sum(content)
                        /\ worker'[w].cur.sha256 = sha256sum(content)
                   [] OTHER ->
                        LET e == worker'[w].status_list[Len(worker'[w].status_list)] IN
                        /\ e.id = id
                        /\ e.status = "error" => e.obs.download = "failed"
                        /\ e.status # "error" =>
                             /\ e.status = "duplicate"
                             /\ e.sha1 = sha1sum(content)
                             /\ e.sha256 = sha256sum(content)
            /\ (wk.pc = "insert" /\ worker'[w] # wk) =>
                 LET e == wk.status_list[wk.idx] IN
                 files[e.id].sha1 # sha1sum(ContentOf(e.id)) =>
                    /\ e.sha1 = sha1sum(ContentOf(e.id))
                    /\ \A b \in backups' \ backups :
                         /\ b.wiki = files[e.id].wiki
                         /\ b.sha256 = sha256sum(ContentOf(e.id))
                         /\ b.sha1 = sha1sum(ContentOf(e.id))
      ]_vars

\* C37 witness: a row whose metadata sha1 is not the one of its content is
\* backedup, and the backups row of its key carries the computed sha1.
C37_Witness ==
    \E id \in DOMAIN files :
        /\ files[id].sha1 # sha1sum(ContentOf(id))
        /\ files[id].backup_status = "backedup"
        /\ BackupKey(id) \in store
        /\ \E b \in backups :
             /\ b.wiki = files[id].wiki
             /\ b.sha256 = sha256sum(ContentOf(id))
             /\ b.sha1 = sha1sum(ContentOf(id))
             /\ b.sha1 # files[id].sha1

LeadingStamp(name) ==
    IF name # NoName /\ name # <<>> /\ HasBang(name) /\ BeforeBang(name) \in ValidStamps
    THEN BeforeBang(name) ELSE NULL

\* C39: for an archived or deleted production row, archived_timestamp is
\* the timestamp archive_name leads with; when archive_name is absent or
\* malformed, the one the storage name leads with; when that is not
\* available either, null.
C39_ArchivedTimestampFallback ==
    (last.pc = "file" /\ last.row.status # "public") =>
        last.archived_timestamp =
            IF LeadingStamp(last.row.archived_name) # NULL
            THEN LeadingStamp(last.row.archived_name)
            ELSE LeadingStamp(storage_name(last.row))

====
